---------------------------- MODULE Spec2Model ----------------------------
(***************************************************************************)
(* The signaling server of FileShare: the SessionStore (session registry) *)
(* and the WebSocketHandler (connection registry and protocol handler).   *)
(* Every handler runs to completion on Node's single thread, so each      *)
(* handler is one atomic action.                                          *)
(***************************************************************************)
EXTENDS Integers, Sequences, FiniteSets, TLC

(***************************************************************************)
(* Bounds of the model.                                                    *)
(***************************************************************************)
\* how many sessions createSession may make in one run
MaxSessions == 2

\* the transport connections (socket objects)
Sockets == {"s1", "s2", "s3"}
\* the session ids a client may name; createSession makes them in this order
SessionIds == 1..MaxSessions
\* the tokens a client may present
Tokens == 1..MaxSessions
\* a run has two connections and up to MaxSessions sessions, or three
\* connections and a single session: who connects, and how many sessions
\* createSession may make, and how many readings of the clock it takes
Universes == {[sockets |-> {"s1", "s2"}, sessions |-> MaxSessions, readings |-> 3,
               track |-> "none"],
              [sockets |-> {"s1", "s2", "s3"}, sessions |-> 1, readings |-> 3,
               track |-> "none"]}
\* a run that also keeps the history of the joins and of the relays of one
\* sender, Tracked, of which it takes up to MaxLog
MaxLog == 2
Tracked == "s1"
TrackedUniverses == {[sockets |-> {"s1", "s2"}, sessions |-> 1, readings |-> 3,
                      track |-> "relays"]}
\* a run that keeps the history of the notifications instead
NoticedUniverses == {[sockets |-> {"s1", "s2"}, sessions |-> 1, readings |-> 3,
                      track |-> "notices"]}
\* a run of one connection, hence one address, that may make one session
\* more than the documented hourly number of creations, CreateCap
CreateCap == 10
RateUniverses == {[sockets |-> {"s1"}, sessions |-> CreateCap + 1, readings |-> 2,
                   track |-> "none"]}
\* a run in which nothing connects to the server
Quiet == {[sockets |-> {}, sessions |-> 0, readings |-> 1, track |-> "none"]}
\* how many WebSocket objects the signaling client of a run may make
MaxSockets == 6
\* how many chunks the file of a transfer may have
MaxChunks == 2
\* the fileId of the manifest of the transfer and the fileId of another one
TheFile == "F"
FileIds == {"F", "G"}
\* how the peer of a sender behaves: "any" sends whatever it likes
\* whenever it likes, "prompt" answers each message once, in time
Peers == {"any", "prompt"}
\* how the peer of a receiver behaves: "any" sends whatever it likes,
\* "faithful" sends the manifest of a file and then its chunks, in order
Feeders == {"any", "faithful"}
\* the payloads a chunk may carry, as their bytes
Payloads == {<<1>>, <<2>>}
\* the clientId and displayName each client puts in its payloads; the
\* third client presents the clientId of the first
Identity == [s \in Sockets |->
               IF s = "s2" THEN [clientId |-> "B", displayName |-> "Bob"]
               ELSE IF s = "s1" THEN [clientId |-> "A", displayName |-> "Alice"]
               ELSE [clientId |-> "A", displayName |-> "Eve"]]
ClientIds == {Identity[s].clientId : s \in Sockets}
\* a clientId no client presents in a create_session or a join_session
Stranger == "Z"
\* the relay envelopes of one run: a type with an opaque payload
Relays == {[type |-> "offer", data |-> "sdp1"],
           [type |-> "answer", data |-> "sdp2"],
           [type |-> "ice_candidate", data |-> "cand"]}
\* the reasons of a session_close; "" is an absent reason
Reasons == {"", "bye"}

(***************************************************************************)
(* Program constants.                                                      *)
(***************************************************************************)
\* expiresAt: now + 60 * 60 * 1000
TTL == 3600000
\* timeDiff > 300000
MaxSkew == 300000
\* clients.size >= 2
MaxClients == 2

RelayTypes == {"offer", "answer", "ice_candidate"}

VARIABLES
    sessions,             \* SessionStore.sessions: sessionId -> Session
    totalSessionsCreated, \* SessionStore.totalSessionsCreated
    clientSessions,       \* WebSocketHandler.clientSessions: socket -> <<>> or <<mapping>>
    status,               \* each socket: "open", "closing" (the server called close()), "closed"
    now,                  \* Date.now()
    ticks,                \* how often the clock has advanced
    universe,             \* the bounds of this run, an element of Universes
    last,                 \* the event the last step handled
    sent,                 \* the socket.send calls of the last step, in order
    cleanupInterval,      \* SessionStore.cleanupInterval: "set" or "cleared"
    hist,                 \* history of a tracked run: joined, accepted, written
    signaling,             \* the SignalingClient of a browser and its WebSocket objects
    sender,               \* an activation of FileStreamManager.sendFile and its channel
    receiver              \* an activation of FileStreamManager.receiveFile and its channel

vars == <<sessions, totalSessionsCreated, clientSessions, status, now, ticks, universe,
          last, sent, cleanupInterval, hist, signaling, sender, receiver>>

\* the variables of the signaling server
serverVars == <<sessions, totalSessionsCreated, clientSessions, status, now, ticks,
                universe, last, sent, cleanupInterval, hist>>

(***************************************************************************)
(* Map<string, ClientConnection>: a sequence of entries in insertion       *)
(* order, one entry per key.                                               *)
(***************************************************************************)
MapHas(clients, id) == \E i \in 1..Len(clients) : clients[i].clientId = id

MapGet(clients, id) ==
    IF MapHas(clients, id)
    THEN <<clients[CHOOSE i \in 1..Len(clients) : clients[i].clientId = id]>>
    ELSE <<>>

\* Map.set: an existing key keeps its place and takes the new value
MapSet(clients, client) ==
    IF MapHas(clients, client.clientId)
    THEN [i \in 1..Len(clients) |->
            IF clients[i].clientId = client.clientId THEN client ELSE clients[i]]
    ELSE Append(clients, client)

MapDelete(clients, id) == SelectSeq(clients, LAMBDA c : c.clientId # id)

SocketsOf(clients) == {clients[i].socket : i \in 1..Len(clients)}

(***************************************************************************)
(* SessionStore.  A store value St is [sessions, status, total]: the       *)
(* sessions map, the sockets' states (deleteSession closes sockets) and    *)
(* the counter.                                                            *)
(***************************************************************************)
\* socket.close() on the server side
SocketClose(st) == IF st = "open" THEN "closing" ELSE st

DeleteSession(St, sessionId) ==
    IF sessionId \in DOMAIN St.sessions
    THEN [St EXCEPT
            !.status = [s \in Sockets |->
                          IF s \in SocketsOf(St.sessions[sessionId].clients)
                          THEN SocketClose(St.status[s]) ELSE St.status[s]],
            !.sessions = [x \in DOMAIN St.sessions \ {sessionId} |-> St.sessions[x]]]
    ELSE St

Expired(session, t) == t > session.expiresAt

\* GetSession without the test of the expiry time
GetSessionForever(St, sessionId, t) ==
    [St |-> St, found |-> sessionId \in DOMAIN St.sessions]

\* [St, found]: the session is St.sessions[sessionId] when found
GetSession(St, sessionId, t) ==
    IF sessionId \in DOMAIN St.sessions /\ Expired(St.sessions[sessionId], t)
    THEN [St |-> DeleteSession(St, sessionId), found |-> FALSE]
    ELSE [St |-> St, found |-> sessionId \in DOMAIN St.sessions]

\* randomUUID(): an id no earlier session had
GenerateId(St) == St.total + 1

\* randomBytes(32): a secret no earlier session had; 0 is no token
GenerateToken(St) == St.total + 1

\* [St, sessionId]
CreateSession(St, t) ==
    LET sessionId == GenerateId(St)
        session == [token |-> GenerateToken(St),
                    createdAt |-> t,
                    expiresAt |-> t + TTL,
                    clients |-> <<>>]
    IN [St |-> [St EXCEPT
                  !.sessions = [x \in DOMAIN St.sessions \cup {sessionId} |->
                                  IF x = sessionId THEN session ELSE St.sessions[x]],
                  !.total = St.total + 1],
        sessionId |-> sessionId]

\* ValidateToken with the comparison of the token left out
ValidateTokenAnyToken(St, sessionId, token, t) ==
    LET g == GetSession(St, sessionId, t)
    IN [St |-> g.St, ok |-> g.found]

\* [St, ok]
ValidateToken(St, sessionId, token, t) ==
    LET g == GetSession(St, sessionId, t)
    IN [St |-> g.St,
        ok |-> IF g.found THEN g.St.sessions[sessionId].token = token ELSE FALSE]

\* AddClient with the limit of two clients left out
AddClientNoLimit(St, sessionId, clientId, displayName, socket, t) ==
    LET g == GetSession(St, sessionId, t)
    IN IF ~g.found THEN [St |-> g.St, ok |-> FALSE]
       ELSE LET client == [clientId |-> clientId, displayName |-> displayName,
                           socket |-> socket]
            IN [St |-> [g.St EXCEPT !.sessions[sessionId].clients = MapSet(@, client)],
                ok |-> TRUE]

\* AddClient testing the size after the insertion
AddClientThenCheck(St, sessionId, clientId, displayName, socket, t) ==
    LET g == GetSession(St, sessionId, t)
    IN IF ~g.found THEN [St |-> g.St, ok |-> FALSE]
       ELSE LET client == [clientId |-> clientId, displayName |-> displayName,
                           socket |-> socket]
            IN [St |-> [g.St EXCEPT !.sessions[sessionId].clients = MapSet(@, client)],
                ok |-> Len(g.St.sessions[sessionId].clients) < MaxClients]

\* [St, ok]
AddClient(St, sessionId, clientId, displayName, socket, t) ==
    LET g == GetSession(St, sessionId, t)
    IN IF ~g.found THEN [St |-> g.St, ok |-> FALSE]
       ELSE IF Len(g.St.sessions[sessionId].clients) >= MaxClients
            THEN [St |-> g.St, ok |-> FALSE]
       ELSE LET \* joinedAt: Date.now() is written here and read nowhere
                client == [clientId |-> clientId, displayName |-> displayName,
                           socket |-> socket]
            IN [St |-> [g.St EXCEPT !.sessions[sessionId].clients = MapSet(@, client)],
                ok |-> TRUE]

\* RemoveClient without the deletion of a session left empty
RemoveClientKeepEmpty(St, sessionId, clientId) ==
    IF sessionId \in DOMAIN St.sessions
    THEN [St EXCEPT !.sessions[sessionId].clients = MapDelete(@, clientId)]
    ELSE St

RemoveClient(St, sessionId, clientId) ==
    IF sessionId \in DOMAIN St.sessions
    THEN LET St1 == [St EXCEPT !.sessions[sessionId].clients = MapDelete(@, clientId)]
         IN IF Len(St1.sessions[sessionId].clients) = 0
            THEN DeleteSession(St1, sessionId)
            ELSE St1
    ELSE St

\* GetClient looking up the other member, whatever clientId names
GetClientOther(St, sessionId, clientId, t) ==
    LET g == GetSession(St, sessionId, t)
        others == IF g.found
                  THEN SelectSeq(g.St.sessions[sessionId].clients,
                                 LAMBDA c : c.clientId # clientId)
                  ELSE <<>>
    IN [St |-> g.St,
        client |-> IF Len(others) > 0 THEN <<others[1]>> ELSE <<>>]

\* [St, client]: client is <<>> (undefined) or <<ClientConnection>>
GetClient(St, sessionId, clientId, t) ==
    LET g == GetSession(St, sessionId, t)
    IN [St |-> g.St,
        client |-> IF g.found THEN MapGet(g.St.sessions[sessionId].clients, clientId)
                   ELSE <<>>]

\* GetOtherClient with the test of the key turned around
GetOtherClientSame(St, sessionId, clientId, t) ==
    LET g == GetSession(St, sessionId, t)
        same == IF g.found
                THEN SelectSeq(g.St.sessions[sessionId].clients,
                               LAMBDA c : c.clientId = clientId)
                ELSE <<>>
    IN [St |-> g.St,
        client |-> IF Len(same) > 0 THEN <<same[1]>> ELSE <<>>]

\* [St, client]: the first entry, in insertion order, with another key
GetOtherClient(St, sessionId, clientId, t) ==
    LET g == GetSession(St, sessionId, t)
        others == IF g.found
                  THEN SelectSeq(g.St.sessions[sessionId].clients,
                                 LAMBDA c : c.clientId # clientId)
                  ELSE <<>>
    IN [St |-> g.St,
        client |-> IF Len(others) > 0 THEN <<others[1]>> ELSE <<>>]

RECURSIVE DeleteAll(_, _)
DeleteAll(St, ids) ==
    IF ids = {} THEN St
    ELSE LET x == CHOOSE y \in ids : \A z \in ids : y <= z
         IN DeleteAll(DeleteSession(St, x), ids \ {x})

\* cleanup(), after clearInterval: every session is deleted
Cleanup(St) == DeleteAll(St, DOMAIN St.sessions)

\* CleanupExpiredSessions stopping after the first expired session
CleanupExpiredSessionsFirst(St, t) ==
    LET ids == {x \in DOMAIN St.sessions : t > St.sessions[x].expiresAt}
    IN IF ids = {} THEN St
       ELSE DeleteSession(St, CHOOSE y \in ids : \A z \in ids : y <= z)

CleanupExpiredSessions(St, t) ==
    DeleteAll(St, {x \in DOMAIN St.sessions : t > St.sessions[x].expiresAt})

(***************************************************************************)
(* SignalingMessage.  An absent (or empty, both are falsy) field is 0 for  *)
(* sessionId and token and "" for the strings.                             *)
(***************************************************************************)
NoPayload == [none |-> TRUE]

\* tsKind tells what JSON.parse found under "timestamp": a number, nothing
\* ("absent") or a text that is no number ("text")
Msg(type, sessionId, from, to, timestamp, payload) ==
    [type |-> type, sessionId |-> sessionId, from |-> from, to |-> to,
     timestamp |-> timestamp, tsKind |-> "number", payload |-> payload]

\* the message m with its timestamp left out or replaced by a text
Untimed(m, kind) == [m EXCEPT !.timestamp = 0, !.tsKind = kind]

NoMsg == Msg("none", 0, "", "", 0, NoPayload)

(***************************************************************************)
(* WebSocketHandler.  A handler value H is [St, cs, out]: the store, the   *)
(* clientSessions map and the socket.send calls made so far.               *)
(***************************************************************************)
\* socket.send inside try/catch: a socket that is not open takes nothing
Send(H, socket, message) ==
    [H EXCEPT !.out = Append(@, [to |-> socket, msg |-> message,
                                 ok |-> H.St.status[socket] = "open"])]

ErrorMsg(code, t) == Msg("error", 0, "", "", t, [code |-> code])

\* SendError telling the members of the sender's session as well
SendErrorToSession(H, socket, code, t) ==
    LET H1 == Send(H, socket, ErrorMsg(code, t))
    IN IF H.cs[socket] # <<>> /\ H.cs[socket][1].sessionId \in DOMAIN H.St.sessions
       THEN LET p == SelectSeq(H.St.sessions[H.cs[socket][1].sessionId].clients,
                               LAMBDA c : c.socket # socket)
            IN IF Len(p) > 0 THEN Send(H1, p[1].socket, ErrorMsg(code, t)) ELSE H1
       ELSE H1

SendError(H, socket, code, t) == Send(H, socket, ErrorMsg(code, t))

\* Caught closing the socket after the answer
CaughtAndClosed(H, socket, t) ==
    [SendError(H, socket, "INVALID_MESSAGE", t) EXCEPT
        !.St.status[socket] = SocketClose(@)]

\* the catch of handleMessage: JSON.parse, or a handler that reads a field
\* of an absent payload, throws, and the sender is answered INVALID_MESSAGE
Caught(H, socket, t) == SendError(H, socket, "INVALID_MESSAGE", t)

SessionCreatedMsg(session, sessionId, t) ==
    Msg("session_created", 0, "", "", t,
        [sessionId |-> sessionId, token |-> session.token,
         expiresAt |-> session.expiresAt])

HandleCreateSession(H, socket, message, t) ==
    IF message.payload = NoPayload THEN Caught(H, socket, t)
    ELSE
    LET clientId == message.payload.clientId
        displayName == message.payload.displayName
    IN IF clientId = "" \/ displayName = ""
       THEN SendError(H, socket, "INVALID_PAYLOAD", t)
       ELSE LET c == CreateSession(H.St, t)
                a == AddClient(c.St, c.sessionId, clientId, displayName, socket, t)
                H1 == [H EXCEPT
                         !.St = a.St,
                         !.cs[socket] = <<[sessionId |-> c.sessionId,
                                           clientId |-> clientId]>>]
            IN Send(H1, socket,
                    SessionCreatedMsg(c.St.sessions[c.sessionId], c.sessionId, t))

\* SessionJoinedMsg with the token of the join echoed in the payload
SessionJoinedMsgWithToken(message, peer, t) ==
    Msg("session_joined", message.sessionId, "", "", t,
        IF peer = <<>>
        THEN [peerId |-> "", peerDisplayName |-> "", token |-> message.payload.token]
        ELSE [peerId |-> peer[1].clientId, peerDisplayName |-> peer[1].displayName,
              token |-> message.payload.token])

\* peer is <<>> or <<ClientConnection>>; an undefined field is dropped by JSON.stringify
SessionJoinedMsg(message, peer, t) ==
    Msg("session_joined", message.sessionId, "", "", t,
        IF peer = <<>> THEN [peerId |-> "", peerDisplayName |-> ""]
        ELSE [peerId |-> peer[1].clientId, peerDisplayName |-> peer[1].displayName])

PeerJoinedMsg(message, t) ==
    Msg("peer_joined", message.sessionId, "", "", t,
        [peerId |-> message.payload.clientId,
         peerDisplayName |-> message.payload.displayName])

\* HandleJoinSession telling the joiner only
HandleJoinSessionQuiet(H, socket, message, t) ==
    IF message.payload = NoPayload THEN Caught(H, socket, t)
    ELSE
    LET sessionId == message.sessionId
        token == message.payload.token
        clientId == message.payload.clientId
        displayName == message.payload.displayName
    IN IF sessionId = 0 \/ token = 0 \/ clientId = "" \/ displayName = ""
       THEN SendError(H, socket, "INVALID_PAYLOAD", t)
       ELSE LET v == ValidateToken(H.St, sessionId, token, t)
            IN IF ~v.ok
               THEN SendError([H EXCEPT !.St = v.St], socket, "INVALID_TOKEN", t)
               ELSE LET a == AddClient(v.St, sessionId, clientId, displayName, socket, t)
                    IN IF ~a.ok
                       THEN SendError([H EXCEPT !.St = a.St], socket, "SESSION_FULL", t)
                       ELSE LET p == GetOtherClient(a.St, sessionId, clientId, t)
                                H1 == [H EXCEPT
                                         !.St = p.St,
                                         !.cs[socket] = <<[sessionId |-> sessionId,
                                                           clientId |-> clientId]>>]
                            IN Send(H1, socket, SessionJoinedMsg(message, p.client, t))

HandleJoinSession(H, socket, message, t) ==
    IF message.payload = NoPayload THEN Caught(H, socket, t)
    ELSE
    LET sessionId == message.sessionId
        token == message.payload.token
        clientId == message.payload.clientId
        displayName == message.payload.displayName
    IN IF sessionId = 0 \/ token = 0 \/ clientId = "" \/ displayName = ""
       THEN SendError(H, socket, "INVALID_PAYLOAD", t)
       ELSE LET v == ValidateToken(H.St, sessionId, token, t)
            IN IF ~v.ok
               THEN SendError([H EXCEPT !.St = v.St], socket, "INVALID_TOKEN", t)
               ELSE LET a == AddClient(v.St, sessionId, clientId, displayName, socket, t)
                    IN IF ~a.ok
                       THEN SendError([H EXCEPT !.St = a.St], socket, "SESSION_FULL", t)
                       ELSE LET p == GetOtherClient(a.St, sessionId, clientId, t)
                                H1 == [H EXCEPT
                                         !.St = p.St,
                                         !.cs[socket] = <<[sessionId |-> sessionId,
                                                           clientId |-> clientId]>>]
                                H2 == Send(H1, socket,
                                           SessionJoinedMsg(message, p.client, t))
                            IN IF p.client # <<>>
                               THEN Send(H2, p.client[1].socket, PeerJoinedMsg(message, t))
                               ELSE H2

\* the sender check of handleRelay: session.clients.has(from)
SenderInSession(session, socket, from) == MapHas(session.clients, from)

\* HandleRelay writing the forwarded envelope twice
HandleRelayTwice(H, socket, message, t) ==
    LET sessionId == message.sessionId
        from == message.from
        to == message.to
    IN IF sessionId = 0 \/ from = "" \/ to = ""
       THEN SendError(H, socket, "INVALID_PAYLOAD", t)
       ELSE LET g == GetSession(H.St, sessionId, t)
                H1 == [H EXCEPT !.St = g.St]
            IN IF ~g.found \/ ~SenderInSession(g.St.sessions[sessionId], socket, from)
               THEN SendError(H1, socket, "UNAUTHORIZED", t)
               ELSE LET r == GetClient(H1.St, sessionId, to, t)
                        H2 == [H1 EXCEPT !.St = r.St]
                    IN IF r.client = <<>>
                       THEN SendError(H2, socket, "PEER_NOT_FOUND", t)
                       ELSE Send(Send(H2, r.client[1].socket, message),
                                 r.client[1].socket, message)

\* HandleRelay forwarding to the sender's peer when to names no member
HandleRelayToPeer(H, socket, message, t) ==
    LET sessionId == message.sessionId
        from == message.from
        to == message.to
    IN IF sessionId = 0 \/ from = "" \/ to = ""
       THEN SendError(H, socket, "INVALID_PAYLOAD", t)
       ELSE LET g == GetSession(H.St, sessionId, t)
                H1 == [H EXCEPT !.St = g.St]
            IN IF ~g.found \/ ~SenderInSession(g.St.sessions[sessionId], socket, from)
               THEN SendError(H1, socket, "UNAUTHORIZED", t)
               ELSE LET r == GetClient(H1.St, sessionId, to, t)
                        o == GetOtherClient(r.St, sessionId, from, t)
                        H2 == [H1 EXCEPT !.St = o.St]
                    IN IF r.client # <<>>
                       THEN Send(H2, r.client[1].socket, message)
                       ELSE IF o.client # <<>>
                       THEN Send(H2, o.client[1].socket, message)
                       ELSE SendError(H2, socket, "PEER_NOT_FOUND", t)

\* HandleRelay stamping the forwarded envelope with the server's clock
HandleRelayRestamped(H, socket, message, t) ==
    LET sessionId == message.sessionId
        from == message.from
        to == message.to
    IN IF sessionId = 0 \/ from = "" \/ to = ""
       THEN SendError(H, socket, "INVALID_PAYLOAD", t)
       ELSE LET g == GetSession(H.St, sessionId, t)
                H1 == [H EXCEPT !.St = g.St]
            IN IF ~g.found \/ ~SenderInSession(g.St.sessions[sessionId], socket, from)
               THEN SendError(H1, socket, "UNAUTHORIZED", t)
               ELSE LET r == GetClient(H1.St, sessionId, to, t)
                        H2 == [H1 EXCEPT !.St = r.St]
                    IN IF r.client = <<>>
                       THEN SendError(H2, socket, "PEER_NOT_FOUND", t)
                       ELSE Send(H2, r.client[1].socket,
                                 [message EXCEPT !.timestamp = t])

HandleRelay(H, socket, message, t) ==
    LET sessionId == message.sessionId
        from == message.from
        to == message.to
    IN IF sessionId = 0 \/ from = "" \/ to = ""
       THEN SendError(H, socket, "INVALID_PAYLOAD", t)
       ELSE LET g == GetSession(H.St, sessionId, t)
                H1 == [H EXCEPT !.St = g.St]
            IN IF ~g.found \/ ~SenderInSession(g.St.sessions[sessionId], socket, from)
               THEN SendError(H1, socket, "UNAUTHORIZED", t)
               ELSE LET r == GetClient(H1.St, sessionId, to, t)
                        H2 == [H1 EXCEPT !.St = r.St]
                    IN IF r.client = <<>>
                       THEN SendError(H2, socket, "PEER_NOT_FOUND", t)
                       ELSE Send(H2, r.client[1].socket, message)

PeerLeftMsg(sessionId, clientId, reason, t) ==
    Msg("peer_left", sessionId, "", "", t,
        [peerId |-> clientId, reason |-> IF reason = "" THEN "unknown" ELSE reason])

\* HandleSessionClose leaving the binding of the socket in place
HandleSessionCloseKeepBinding(H, socket, message, t) ==
    IF H.cs[socket] = <<>> THEN H
    ELSE LET sessionId == H.cs[socket][1].sessionId
             clientId == H.cs[socket][1].clientId
             p == GetOtherClient(H.St, sessionId, clientId, t)
             H1 == [H EXCEPT !.St = p.St]
             H2 == IF p.client # <<>>
                   THEN Send(H1, p.client[1].socket,
                             PeerLeftMsg(sessionId, clientId, message.payload.reason, t))
                   ELSE H1
         IN IF p.client # <<>> /\ message.payload = NoPayload
            THEN Caught(H1, socket, t)
            ELSE [H2 EXCEPT !.St = RemoveClient(H2.St, sessionId, clientId)]

HandleSessionClose(H, socket, message, t) ==
    IF H.cs[socket] = <<>> THEN H
    ELSE LET sessionId == H.cs[socket][1].sessionId
             clientId == H.cs[socket][1].clientId
             p == GetOtherClient(H.St, sessionId, clientId, t)
             H1 == [H EXCEPT !.St = p.St]
             H2 == IF p.client # <<>>
                   THEN Send(H1, p.client[1].socket,
                             PeerLeftMsg(sessionId, clientId, message.payload.reason, t))
                   ELSE H1
         IN IF p.client # <<>> /\ message.payload = NoPayload
            THEN Caught(H1, socket, t)
            ELSE [H2 EXCEPT !.St = RemoveClient(H2.St, sessionId, clientId),
                            !.cs[socket] = <<>>]

PeerDisconnectedMsg(sessionId, clientId, t) ==
    Msg("peer_disconnected", sessionId, "", "", t, [peerId |-> clientId])

HandleDisconnect(H, socket, t) ==
    IF H.cs[socket] = <<>> THEN H
    ELSE LET sessionId == H.cs[socket][1].sessionId
             clientId == H.cs[socket][1].clientId
             p == GetOtherClient(H.St, sessionId, clientId, t)
             H1 == [H EXCEPT !.St = p.St]
             H2 == IF p.client # <<>>
                   THEN Send(H1, p.client[1].socket,
                             PeerDisconnectedMsg(sessionId, clientId, t))
                   ELSE H1
         IN [H2 EXCEPT !.St = RemoveClient(H2.St, sessionId, clientId),
                       !.cs[socket] = <<>>]

Abs(x) == IF x < 0 THEN -x ELSE x

\* Math.abs(now - message.timestamp): NaN unless the timestamp is a number
TimeDiff(t, message) ==
    IF message.tsKind = "number"
    THEN [nan |-> FALSE, value |-> Abs(t - message.timestamp)]
    ELSE [nan |-> TRUE, value |-> 0]

\* timeDiff > bound, which is false of NaN
Greater(d, bound) == ~d.nan /\ d.value > bound

\* HandleMessage refusing old timestamps only
HandleMessagePastOnly(H, socket, message, t) ==
    IF t - message.timestamp > MaxSkew
    THEN SendError(H, socket, "INVALID_TIMESTAMP", t)
    ELSE CASE message.type = "create_session" -> HandleCreateSession(H, socket, message, t)
           [] message.type = "join_session" -> HandleJoinSession(H, socket, message, t)
           [] message.type \in RelayTypes -> HandleRelay(H, socket, message, t)
           [] message.type = "session_close" -> HandleSessionClose(H, socket, message, t)
           [] OTHER -> SendError(H, socket, "UNKNOWN_MESSAGE_TYPE", t)

HandleMessage(H, socket, message, t) ==
    IF Greater(TimeDiff(t, message), MaxSkew)
    THEN SendError(H, socket, "INVALID_TIMESTAMP", t)
    ELSE CASE message.type = "create_session" -> HandleCreateSession(H, socket, message, t)
           [] message.type = "join_session" -> HandleJoinSession(H, socket, message, t)
           [] message.type \in RelayTypes -> HandleRelay(H, socket, message, t)
           [] message.type = "session_close" -> HandleSessionClose(H, socket, message, t)
           [] OTHER -> SendError(H, socket, "UNKNOWN_MESSAGE_TYPE", t)

(***************************************************************************)
(* The messages a client may send.  A well-formed message has every field  *)
(* its handler reads; the malformed ones lack one of them.                 *)
(***************************************************************************)
\* timestamps the replay check accepts and rejects, at the ends of the window
FreshTimestamps(t) == {t - MaxSkew}
StaleTimestamps(t) == {t - MaxSkew - 1, t + MaxSkew + 1}

Create(ts, clientId, displayName) ==
    Msg("create_session", 0, "", "", ts, [clientId |-> clientId, displayName |-> displayName])

CreateMessages(s, t) ==
    UNION {{Create(ts, Identity[s].clientId, Identity[s].displayName),
            Create(ts, "", Identity[s].displayName),
            Create(ts, Identity[s].clientId, ""),
            Msg("create_session", 0, "", "", ts, NoPayload)} :
           ts \in FreshTimestamps(t)}

Join(ts, sessionId, token, clientId, displayName) ==
    Msg("join_session", sessionId, "", "", ts,
        [token |-> token, clientId |-> clientId, displayName |-> displayName])

JoinMessages(s, t) ==
    LET c == Identity[s].clientId
        d == Identity[s].displayName
    IN UNION {{Join(ts, sid, k, c, d) : sid \in SessionIds, k \in Tokens}
              \cup {Join(ts, 0, 1, c, d), Join(ts, 1, 0, c, d),
                    Join(ts, 1, 1, "", d), Join(ts, 1, 1, c, ""),
                    Msg("join_session", 1, "", "", ts, NoPayload)} :
              ts \in FreshTimestamps(t)}

Relay(ts, r, sessionId, from, to) ==
    Msg(r.type, sessionId, from, to, ts, [data |-> r.data])

\* a relay may name any client as its sender and as its recipient
RelayMessages(s, t) ==
    UNION {{Relay(ts, r, sid, f, to) :
                r \in Relays, sid \in SessionIds, f \in ClientIds, to \in ClientIds}
           \cup (LET r == [type |-> "offer", data |-> "sdp1"]
                 IN {Relay(ts, r, 0, "A", "B"), Relay(ts, r, 1, "", "B"),
                     Relay(ts, r, 1, "A", "")}
                    \cup {Relay(ts, r, sid, f, Stranger) :
                            sid \in SessionIds, f \in ClientIds}) :
           ts \in FreshTimestamps(t)}

CloseMessages(s, t) ==
    {Msg("session_close", 0, "", "", ts, [reason |-> r]) :
        ts \in FreshTimestamps(t), r \in Reasons}
    \cup {Msg("session_close", 0, "", "", ts, NoPayload) : ts \in FreshTimestamps(t)}

\* a type handleMessage does not know, at both ends of the timestamp window
OtherMessages(s, t) ==
    {Msg("ping", 0, "", "", ts, NoPayload) : ts \in {t - MaxSkew, t + MaxSkew}}

\* messages with every field present whose timestamp is outside the window
StaleMessages(s, t) ==
    LET c == Identity[s].clientId
        d == Identity[s].displayName
    IN UNION {{Create(ts, c, d),
               Msg("session_close", 0, "", "", ts, [reason |-> "bye"]),
               Msg("ping", 0, "", "", ts, NoPayload)}
              \cup {Join(ts, sid, k, c, d) : sid \in SessionIds, k \in Tokens}
              \cup {Relay(ts, [type |-> "offer", data |-> "sdp1"], sid, c, to) :
                       sid \in SessionIds, to \in ClientIds} :
              ts \in StaleTimestamps(t)}

\* messages with every other field present whose timestamp is left out or
\* is a text; a join presents the token createSession gave the session
UntimedMessages(s, t) ==
    LET c == Identity[s].clientId
        d == Identity[s].displayName
    IN {Untimed(Create(t, c, d), "absent"), Untimed(Create(t, c, d), "text"),
        Untimed(Msg("session_close", 0, "", "", t, [reason |-> "bye"]), "absent")}
       \cup {Untimed(Join(t, sid, sid, c, d), "absent") : sid \in SessionIds}
       \cup {Untimed(Relay(t, [type |-> "offer", data |-> "sdp1"], sid, c, to),
                     "absent") :
                sid \in SessionIds, to \in ClientIds \ {c}}

(***************************************************************************)
(* SignalingClient.  A client value c holds the fields ws (0 is null, else  *)
(* the number of a WebSocket object), connected and reconnectAttempts, the *)
(* readyState of every WebSocket object made so far, the delays of the     *)
(* pending reconnect timers, and two histories: the delays scheduled since *)
(* the last open, and whether disconnect() was the application's last      *)
(* call.                                                                   *)
(***************************************************************************)
\* maxReconnectAttempts = 5
MaxReconnectAttempts == 5
\* reconnectDelay = 1000
ReconnectDelay == 1000

NewClient == [ws |-> 0, connected |-> FALSE, reconnectAttempts |-> 0,
              sockets |-> <<>>, timers |-> <<>>, scheduled |-> <<>>,
              stopped |-> FALSE]

\* connect(): this.ws = new WebSocket(url); the listeners change no state
\* until their events
Connect(c) ==
    [c EXCEPT !.sockets = Append(@, "connecting"), !.ws = Len(c.sockets) + 1]

\* Math.pow(2, n)
RECURSIVE Pow2(_)
Pow2(n) == IF n = 0 THEN 1 ELSE 2 * Pow2(n - 1)

\* AttemptReconnect with a delay that grows by reconnectDelay each time
AttemptReconnectLinear(c) ==
    IF c.reconnectAttempts >= MaxReconnectAttempts THEN c
    ELSE LET n == c.reconnectAttempts + 1
             delay == ReconnectDelay * n
         IN [c EXCEPT !.reconnectAttempts = n,
                      !.timers = Append(@, delay),
                      !.scheduled = Append(@, delay)]

\* attemptReconnect(): setTimeout(connect, delay)
AttemptReconnect(c) ==
    IF c.reconnectAttempts >= MaxReconnectAttempts THEN c
    ELSE LET n == c.reconnectAttempts + 1
             delay == ReconnectDelay * Pow2(n - 1)
         IN [c EXCEPT !.reconnectAttempts = n,
                      !.timers = Append(@, delay),
                      !.scheduled = Append(@, delay)]

\* ws.onopen
OnOpen(c) == [c EXCEPT !.connected = TRUE, !.reconnectAttempts = 0, !.scheduled = <<>>]

\* ws.onclose
OnClose(c) == AttemptReconnect([c EXCEPT !.connected = FALSE])

\* WebSocket.close(): the close event comes later
WebSocketClose(readyState) ==
    IF readyState \in {"connecting", "open"} THEN "closing" ELSE readyState

\* disconnect()
SignalingDisconnect(c) ==
    LET c1 == IF c.ws # 0
              THEN [c EXCEPT !.sockets[c.ws] = WebSocketClose(@), !.ws = 0]
              ELSE c
    IN [c1 EXCEPT !.connected = FALSE, !.stopped = TRUE]

\* the sequence q without its i-th element
Without(q, i) == SubSeq(q, 1, i - 1) \o SubSeq(q, i + 1, Len(q))

(***************************************************************************)
(* FileStreamManager.sendFile.  A sender value s holds the place of the    *)
(* activation (pc), manifest.chunkCount, the loop variable chunkIndex, the *)
(* messages sent on the data channel (out), the waitForMessage calls made  *)
(* so far (waits) and channel.onmessage: 0 is null, k is the listener of   *)
(* the k-th waitForMessage.  A wait keeps the type and the chunkIndex its  *)
(* listener accepts, the listener it replaced (orig), whether its promise  *)
(* is settled and whether its timer is still to fire.  heard is the        *)
(* history of the messages that reached the channel.                       *)
(***************************************************************************)
NoSendFile == [pc |-> "idle", peer |-> "any", chunkCount |-> 0, chunkIndex |-> 0,
               out |-> <<>>, waits |-> <<>>, onmessage |-> 0, heard |-> {}]

ManifestAck(fileId) == [type |-> "manifest_ack", fileId |-> fileId, chunkIndex |-> 0]
ChunkAck(fileId, chunkIndex) ==
    [type |-> "chunk_ack", fileId |-> fileId, chunkIndex |-> chunkIndex]

\* waitForMessage(channel, type, validator): the listener is installed and
\* the timer started at once
WaitForMessage(s, type, chunkIndex) ==
    [s EXCEPT !.waits = Append(@, [type |-> type, chunkIndex |-> chunkIndex,
                                   orig |-> s.onmessage, settled |-> FALSE,
                                   timer |-> TRUE]),
              !.onmessage = Len(s.waits) + 1,
              !.pc = "waiting"]

\* msg.type === type && (!validator || validator(msg)); only the wait for
\* chunk_ack has a validator
Accepts(w, m) ==
    /\ m.type = w.type
    /\ w.type = "chunk_ack" => (m.fileId = TheFile /\ m.chunkIndex = w.chunkIndex)

\* the listener h gets the message m: it restores the listener it replaced
\* and resolves its promise, or passes m on to the listener it replaced
RECURSIVE OnMessage(_, _, _)
OnMessage(s, h, m) ==
    IF h = 0 THEN s
    ELSE LET w == s.waits[h]
         IN IF Accepts(w, m)
            THEN [s EXCEPT !.onmessage = w.orig,
                           !.waits[h].settled = TRUE,
                           !.pc = IF w.settled THEN @ ELSE "resolved"]
            ELSE OnMessage(s, w.orig, m)

\* the timer of the k-th wait: channel.onmessage = originalOnMessage; reject
WaitTimeout(s, k) ==
    LET w == s.waits[k]
    IN [s EXCEPT !.onmessage = w.orig,
                 !.waits[k].timer = FALSE,
                 !.waits[k].settled = TRUE,
                 !.pc = IF w.settled THEN @ ELSE "failed"]

\* sendChunk followed by waitForMessage(channel, 'chunk_ack', validator)
SendChunk(s, i) ==
    WaitForMessage([s EXCEPT !.out = Append(@, [type |-> "chunk", fileId |-> TheFile,
                                                chunkIndex |-> i]),
                             !.chunkIndex = i],
                   "chunk_ack", i)

\* sendFile from its call to the first await that waits for the peer
SendFile(s, chunkCount, peer) ==
    WaitForMessage([s EXCEPT !.chunkCount = chunkCount, !.peer = peer,
                             !.out = <<[type |-> "file_manifest", fileId |-> TheFile,
                                        chunkIndex |-> 0]>>],
                   "manifest_ack", 0)

\* sendFile after an await has resolved, to the next await or to the end
SendFileResume(s) ==
    LET i == IF s.waits[Len(s.waits)].type = "manifest_ack" THEN 0 ELSE s.chunkIndex + 1
    IN IF i < s.chunkCount THEN SendChunk(s, i)
       ELSE [s EXCEPT !.pc = "done"]

\* what the peer answers to a message of the sender
ReplyTo(msg) ==
    IF msg.type = "file_manifest" THEN ManifestAck(msg.fileId)
    ELSE ChunkAck(msg.fileId, msg.chunkIndex)

(***************************************************************************)
(* FileStreamManager.receiveFile.  A receiver value r holds the place of   *)
(* the activation (pc), channel.onmessage ("none" is null, "wait" the      *)
(* listener of waitForMessage, "chunks" the chunk listener), the manifest, *)
(* the Map chunks, the chunks handed to the Blob, and whether the 30 s     *)
(* timer of waitForMessage and the 5 min timer of the receive promise are  *)
(* still to fire.  arrived is the history of the chunks of the manifest's  *)
(* fileId that reached the channel; file and fed are what a faithful peer  *)
(* sends and how much of it it has sent.                                   *)
(***************************************************************************)
NoManifest == [fileId |-> "", chunkCount |-> 0, checksum |-> 0]

NoReceiveFile == [pc |-> "idle", peer |-> "any", onmessage |-> "none",
                  manifest |-> NoManifest, chunks |-> <<>>, blob |-> <<>>,
                  timer30 |-> FALSE, timer300 |-> FALSE,
                  arrived |-> {}, file |-> <<>>, fed |-> 0]

\* the bytes of the chunks, one after the other
RECURSIVE Flatten(_)
Flatten(parts) == IF parts = <<>> THEN <<>> ELSE Head(parts) \o Flatten(Tail(parts))

RECURSIVE Sum(_)
Sum(bytes) == IF bytes = <<>> THEN 0 ELSE Head(bytes) + Sum(Tail(bytes))

\* computeChecksum: a digest of the bytes, which different bytes may share
Checksum(bytes) == Sum(bytes) % 3

\* createManifest
CreateManifest(file) ==
    [fileId |-> TheFile, chunkCount |-> Len(file), checksum |-> Checksum(Flatten(file))]

Chunk(fileId, chunkIndex, payload) ==
    [fileId |-> fileId, chunkIndex |-> chunkIndex, payload |-> payload]

\* receiveFile from its call to its first await
ReceiveFile(r, peer, file) ==
    [r EXCEPT !.pc = "manifest_wait", !.peer = peer, !.file = file,
              !.onmessage = "wait", !.timer30 = TRUE]

\* the listener of waitForMessage gets the manifest and receiveFile goes on
\* to its second await: manifest_ack is sent, the chunk listener installed
OnManifest(r, manifest) ==
    IF r.onmessage # "wait" THEN r
    ELSE [r EXCEPT !.manifest = manifest, !.chunks = <<>>,
                   !.onmessage = "chunks", !.timer300 = TRUE,
                   !.pc = "receiving"]

\* chunks.set(chunkIndex, payload)
MapPut(chunks, i, payload) ==
    [j \in DOMAIN chunks \cup {i} |-> IF j = i THEN payload ELSE chunks[j]]

\* reassembleFile: [ok, parts]; it throws on a missing index
ReassembleFile(chunks, manifest) ==
    IF \A i \in 0..(manifest.chunkCount - 1) : i \in DOMAIN chunks
    THEN [ok |-> TRUE, parts |-> [k \in 1..manifest.chunkCount |-> chunks[k - 1]]]
    ELSE [ok |-> FALSE, parts |-> <<>>]

\* the chunk listener gets a binary message; when the Map has chunkCount
\* entries the receive promise resolves and receiveFile goes on to the
\* await of the checksum
OnChunk(r, c) ==
    IF r.onmessage # "chunks" \/ c.fileId # r.manifest.fileId THEN r
    ELSE LET chunks == MapPut(r.chunks, c.chunkIndex, c.payload)
             r1 == [r EXCEPT !.chunks = chunks]
         IN IF Cardinality(DOMAIN chunks) = r.manifest.chunkCount /\ r.pc = "receiving"
            THEN LET b == ReassembleFile(chunks, r.manifest)
                 IN IF b.ok THEN [r1 EXCEPT !.blob = b.parts, !.pc = "verifying"]
                    ELSE [r1 EXCEPT !.pc = "failed"]
            ELSE r1

\* VerifyChecksum without the comparison
VerifyChecksumSkipped(r) == [r EXCEPT !.pc = "done"]

\* receivedChecksum !== manifest.checksum throws, else onComplete(blob)
VerifyChecksum(r) ==
    IF Checksum(Flatten(r.blob)) # r.manifest.checksum
    THEN [r EXCEPT !.pc = "failed"]
    ELSE [r EXCEPT !.pc = "done"]

\* the timer of waitForMessage: channel.onmessage = originalOnMessage; reject
ManifestTimeout(r) ==
    [r EXCEPT !.onmessage = "none", !.timer30 = FALSE,
              !.pc = IF @ = "manifest_wait" THEN "failed" ELSE @]

\* the timer of the receive promise: reject
ReceiveTimeout(r) ==
    [r EXCEPT !.timer300 = FALSE, !.pc = IF @ = "receiving" THEN "failed" ELSE @]


(***************************************************************************)
(* The state machine.  The sockets of a run have been accepted             *)
(* (handleConnection registers the listeners and changes no state); a      *)
(* socket that is not of the run never connects and counts as closed.  A   *)
(* handler runs to completion, its event and its sends are recorded in     *)
(* last and sent, and the event loop takes the next event.                 *)
(***************************************************************************)
Event(kind, socket, message) == [kind |-> kind, socket |-> socket, msg |-> message]

NoEvent == Event("none", "", NoMsg)

\* the notifications of create_session and join_session
JoinNotices == {"session_created", "session_joined", "peer_joined"}

NoHistory == [joined |-> {}, accepted |-> <<>>, written |-> <<>>,
              got |-> [s \in Sockets |-> {}],
              role |-> [s \in Sockets |-> "none"]]

InitIn(U) ==
    /\ sessions = <<>>
    /\ totalSessionsCreated = 0
    /\ clientSessions = [s \in Sockets |-> <<>>]
    /\ cleanupInterval = "set"
    /\ hist = NoHistory
    /\ universe \in U
    /\ status = [s \in Sockets |-> IF s \in universe.sockets THEN "open" ELSE "closed"]
    /\ now = 0
    /\ ticks = 0
    /\ last = NoEvent
    /\ sent = <<>>
    /\ signaling = NewClient
    /\ sender = NoSendFile
    /\ receiver = NoReceiveFile

Init == InitIn(Universes)

\* the event loop is between two handlers
Idle == last = NoEvent

\* the handler value a handler starts from
H0 == [St |-> [sessions |-> sessions, status |-> status, total |-> totalSessionsCreated],
       cs |-> clientSessions, out |-> <<>>]

\* a handler has run to completion
\* the relay-type messages among the writes of a handler, by their types
RECURSIVE RelayWrites(_)
RelayWrites(out) ==
    IF out = <<>> THEN <<>>
    ELSE IF Head(out).msg.type \in RelayTypes
         THEN <<Head(out).msg.type>> \o RelayWrites(Tail(out))
         ELSE RelayWrites(Tail(out))

\* the notifications a handler has written to the open socket s
Notified(out, s) ==
    {out[k].msg.type : k \in {j \in 1..Len(out) :
        out[j].to = s /\ out[j].ok /\ out[j].msg.type \in JoinNotices}}

\* the history of the notifications after a handler: the notifications each
\* open socket was written, and how each socket last became a member
TrackNotices(h, H, event) ==
    [h EXCEPT
       !.got = [s \in Sockets |-> h.got[s] \cup Notified(H.out, s)],
       !.role =
          IF /\ event.msg.type = "create_session"
             /\ \E k \in 1..Len(H.out) : H.out[k].msg.type = "session_created"
          THEN [h.role EXCEPT ![event.socket] = "creator"]
          ELSE IF /\ event.msg.type = "join_session"
                  /\ \E k \in 1..Len(H.out) : H.out[k].msg.type = "session_joined"
               THEN [h.role EXCEPT ![event.socket] = "joiner"]
               ELSE h.role]

\* the history after a handler: the sessions a join_session has succeeded
\* for, the relay frames of Tracked that were not refused, and the relay
\* messages written while the frames of Tracked were handled
Track(h, H, event) ==
    IF event.kind # "message" THEN h
    ELSE IF universe.track = "notices" THEN TrackNotices(h, H, event)
    ELSE [joined |->
            IF /\ event.msg.type = "join_session"
               /\ \E k \in 1..Len(H.out) : H.out[k].msg.type = "session_joined"
            THEN h.joined \cup {event.msg.sessionId} ELSE h.joined,
          accepted |->
            IF /\ event.socket = Tracked
               /\ event.msg.type \in RelayTypes
               /\ \A k \in 1..Len(H.out) : H.out[k].msg.type # "error"
            THEN Append(h.accepted, event.msg.type) ELSE h.accepted,
          written |->
            IF event.socket = Tracked
            THEN h.written \o RelayWrites(H.out) ELSE h.written,
          got |-> h.got,
          role |-> h.role]

Commit(H, event) ==
    /\ sessions' = H.St.sessions
    /\ totalSessionsCreated' = H.St.total
    /\ status' = H.St.status
    /\ clientSessions' = H.cs
    /\ sent' = H.out
    /\ last' = event
    /\ hist' = IF universe.track # "none" THEN Track(hist, H, event) ELSE hist
    /\ UNCHANGED <<now, ticks, universe, signaling, sender, receiver>>

\* a socket whose 'message' and 'close' events are still to come; after
\* SessionStore.cleanup the server is closed and exits, and only the close
\* events are followed
Receiving(s) == status[s] \in {"open", "closing"} /\ cleanupInterval = "set"

Receive(s, message) ==
    /\ Commit(HandleMessage(H0, s, message, now), Event("message", s, message))
    /\ UNCHANGED cleanupInterval

ReceiveCreate(s) ==
    /\ Idle
    /\ Receiving(s)
    /\ totalSessionsCreated < universe.sessions
    /\ \E m \in CreateMessages(s, now) : Receive(s, m)

ReceiveJoin(s) ==
    /\ Idle
    /\ Receiving(s)
    /\ \E m \in JoinMessages(s, now) : Receive(s, m)

ReceiveRelay(s) ==
    /\ Idle
    /\ Receiving(s)
    /\ (universe.track = "relays" /\ s = Tracked) => Len(hist.accepted) < MaxLog
    /\ \E m \in RelayMessages(s, now) : Receive(s, m)

ReceiveClose(s) ==
    /\ Idle
    /\ Receiving(s)
    /\ \E m \in CloseMessages(s, now) : Receive(s, m)

ReceiveOther(s) ==
    /\ Idle
    /\ Receiving(s)
    /\ \E m \in OtherMessages(s, now) : Receive(s, m)

ReceiveStale(s) ==
    /\ Idle
    /\ Receiving(s)
    /\ \E m \in StaleMessages(s, now) : Receive(s, m)

ReceiveUntimed(s) ==
    /\ Idle
    /\ Receiving(s)
    /\ \E m \in UntimedMessages(s, now) :
          /\ m.type = "create_session" => totalSessionsCreated < universe.sessions
          /\ (universe.track = "relays" /\ s = Tracked /\ m.type \in RelayTypes)
                => Len(hist.accepted) < MaxLog
          /\ Receive(s, m)

\* the socket's 'close' event
Disconnect(s) ==
    /\ Idle
    /\ status[s] \in {"open", "closing"}
    /\ LET H == HandleDisconnect(H0, s, now)
       IN Commit([H EXCEPT !.St.status[s] = "closed"], Event("close", s, NoMsg))
    /\ UNCHANGED cleanupInterval

\* a frame JSON.parse throws on
ReceiveUnparsable(s) ==
    /\ Idle
    /\ Receiving(s)
    /\ Commit(Caught(H0, s, now), Event("unparsable", s, NoMsg))
    /\ UNCHANGED cleanupInterval

\* the setInterval callback of the constructor
Sweep ==
    /\ Idle
    /\ cleanupInterval = "set"
    /\ Commit([H0 EXCEPT !.St = CleanupExpiredSessions(H0.St, now)],
              Event("sweep", "", NoMsg))
    /\ UNCHANGED cleanupInterval

\* gracefulShutdown: sessionStore.cleanup()
Shutdown ==
    /\ Idle
    /\ cleanupInterval = "set"
    /\ Commit([H0 EXCEPT !.St = Cleanup(H0.St)], Event("shutdown", "", NoMsg))
    /\ cleanupInterval' = "cleared"

\* the handler has returned
Return ==
    /\ ~Idle
    /\ last' = NoEvent
    /\ sent' = <<>>
    /\ UNCHANGED <<sessions, totalSessionsCreated, clientSessions, status, now, ticks,
                   universe, cleanupInterval, hist, signaling, sender, receiver>>

\* the clock readings of a run: a session made at 0 expires at TTL, is still
\* there at TTL and is expired at TTL + 1
ClockReadings == <<0, TTL, TTL + 1>>

Tick ==
    /\ Idle
    /\ cleanupInterval = "set"
    /\ ticks + 1 < universe.readings
    /\ now' = ClockReadings[ticks + 2]
    /\ ticks' = ticks + 1
    /\ UNCHANGED <<sessions, totalSessionsCreated, clientSessions, status, universe,
                   last, sent, cleanupInterval, hist, signaling, sender, receiver>>

Next ==
    \/ \E s \in Sockets : ReceiveCreate(s)
    \/ \E s \in Sockets : ReceiveJoin(s)
    \/ \E s \in Sockets : ReceiveRelay(s)
    \/ \E s \in Sockets : ReceiveClose(s)
    \/ \E s \in Sockets : ReceiveOther(s)
    \/ \E s \in Sockets : ReceiveStale(s)
    \/ \E s \in Sockets : ReceiveUntimed(s)
    \/ \E s \in Sockets : ReceiveUnparsable(s)
    \/ \E s \in Sockets : Disconnect(s)
    \/ Sweep
    \/ Shutdown
    \/ Return
    \/ Tick

Spec == Init /\ [][Next]_vars

\* the runs that keep the history
SpecTracked == InitIn(TrackedUniverses) /\ [][Next]_vars

\* the runs that keep the history of the notifications
SpecNoticed == InitIn(NoticedUniverses) /\ [][Next]_vars

\* the runs of a single address
SpecRate == InitIn(RateUniverses) /\ [][Next]_vars

(***************************************************************************)
(* The signaling client of a browser: the application calls connect() and  *)
(* disconnect(), the WebSocket objects open, fail and close, and the       *)
(* reconnect timers fire.  The 10 s timer of connect() only rejects a      *)
(* promise and changes no field.                                           *)
(***************************************************************************)
\* the application calls connect()
AppConnect ==
    /\ Len(signaling.sockets) < MaxSockets
    /\ signaling' = Connect([signaling EXCEPT !.stopped = FALSE])
    /\ UNCHANGED <<serverVars, sender, receiver>>

\* the application calls disconnect()
AppDisconnect ==
    /\ signaling' = SignalingDisconnect(signaling)
    /\ signaling' # signaling
    /\ UNCHANGED <<serverVars, sender, receiver>>

\* the open event of a WebSocket
WsOpen(w) ==
    /\ signaling.sockets[w] = "connecting"
    /\ signaling' = OnOpen([signaling EXCEPT !.sockets[w] = "open"])
    /\ UNCHANGED <<serverVars, sender, receiver>>

\* the close event of a WebSocket that failed to connect, was closed by the
\* server or the network, or was closed with close(); the error event
\* before it only rejects a promise
WsClose(w) ==
    /\ signaling.sockets[w] # "closed"
    /\ signaling' = OnClose([signaling EXCEPT !.sockets[w] = "closed"])
    /\ UNCHANGED <<serverVars, sender, receiver>>

\* a reconnect timer fires: connect()
ReconnectTimer(i) ==
    /\ Len(signaling.sockets) < MaxSockets
    /\ signaling' = Connect([signaling EXCEPT !.timers = Without(@, i)])
    /\ UNCHANGED <<serverVars, sender, receiver>>

NextClient ==
    \/ AppConnect
    \/ AppDisconnect
    \/ \E w \in 1..Len(signaling.sockets) : WsOpen(w)
    \/ \E w \in 1..Len(signaling.sockets) : WsClose(w)
    \/ \E i \in 1..Len(signaling.timers) : ReconnectTimer(i)

SpecClient == InitIn(Quiet) /\ [][NextClient]_vars

(***************************************************************************)
(* sendFile on an open data channel.  The peer's messages reach            *)
(* channel.onmessage one by one, awaits resume, timers fire.  A prompt     *)
(* peer answers each message once and before the 30 s of its wait are      *)
(* over.                                                                   *)
(***************************************************************************)
\* the messages a peer may send to the sender
SenderInbox ==
    {ManifestAck(f) : f \in FileIds}
    \cup {ChunkAck(f, i) : f \in FileIds, i \in 0..(MaxChunks - 1)}

CallSendFile ==
    /\ sender.pc = "idle"
    /\ \E n \in 0..MaxChunks, peer \in Peers : sender' = SendFile(sender, n, peer)
    /\ UNCHANGED <<serverVars, signaling, receiver>>

\* a message event of the sender's channel
SenderMessage ==
    /\ sender.pc \in {"waiting", "resolved"}
    /\ \E m \in SenderInbox :
          /\ sender.peer = "prompt"
               => (m = ReplyTo(sender.out[Len(sender.out)]) /\ m \notin sender.heard)
          /\ sender' = [OnMessage(sender, sender.onmessage, m)
                          EXCEPT !.heard = @ \cup {m}]
    /\ UNCHANGED <<serverVars, signaling, receiver>>

\* the await of sendFile resumes
SenderResume ==
    /\ sender.pc = "resolved"
    /\ sender' = SendFileResume(sender)
    /\ UNCHANGED <<serverVars, signaling, receiver>>

\* the 30 s timer of the k-th waitForMessage fires
SenderTimer(k) ==
    /\ sender.waits[k].timer
    /\ sender.peer = "prompt"
         => \/ sender.waits[k].settled
            \/ ReplyTo(sender.out[k]) \in sender.heard
    /\ sender' = WaitTimeout(sender, k)
    /\ UNCHANGED <<serverVars, signaling, receiver>>

NextSend ==
    \/ CallSendFile
    \/ SenderMessage
    \/ SenderResume
    \/ \E k \in 1..Len(sender.waits) : SenderTimer(k)

SpecSend == InitIn(Quiet) /\ [][NextSend]_vars

(***************************************************************************)
(* receiveFile on an open data channel.  The peer's messages reach         *)
(* channel.onmessage one by one, the digest of the Blob comes later, the   *)
(* timers fire.                                                            *)
(***************************************************************************)
\* the files of up to MaxChunks chunks
Files == UNION {[1..n -> Payloads] : n \in 0..MaxChunks}

\* the manifests and the chunks a peer may send
Manifests ==
    {[fileId |-> TheFile, chunkCount |-> n, checksum |-> k] :
        n \in 0..MaxChunks, k \in 0..2}
Chunks ==
    {Chunk(f, i, b) : f \in FileIds, i \in 0..MaxChunks, b \in Payloads}

CallReceiveFile ==
    /\ receiver.pc = "idle"
    /\ \E peer \in Feeders, file \in Files :
          /\ peer = "any" => file = <<>>
          /\ receiver' = ReceiveFile(receiver, peer, file)
    /\ UNCHANGED <<serverVars, signaling, sender>>

\* a message event with a file_manifest
ReceiverManifest ==
    /\ receiver.pc \in {"manifest_wait", "receiving", "verifying"}
    /\ \E m \in Manifests :
          /\ receiver.peer = "faithful"
               => (receiver.fed = 0 /\ m = CreateManifest(receiver.file))
          /\ receiver' =
                [OnManifest(receiver, m) EXCEPT
                   !.fed = IF receiver.peer = "faithful" THEN @ + 1 ELSE @]
    /\ UNCHANGED <<serverVars, signaling, sender>>

\* a message event with a binary chunk
ReceiverChunk ==
    /\ receiver.pc \in {"manifest_wait", "receiving", "verifying"}
    /\ \E c \in Chunks :
          /\ receiver.peer = "faithful"
               => /\ receiver.fed \in 1..Len(receiver.file)
                  /\ c = Chunk(TheFile, receiver.fed - 1, receiver.file[receiver.fed])
          /\ receiver' =
                [OnChunk(receiver, c) EXCEPT
                   !.fed = IF receiver.peer = "faithful" THEN @ + 1 ELSE @,
                   !.arrived = IF c.fileId = receiver.manifest.fileId
                               THEN @ \cup {<<c.chunkIndex, c.payload>>} ELSE @]
    /\ UNCHANGED <<serverVars, signaling, sender>>

\* the digest of the Blob is there
ReceiverVerify ==
    /\ receiver.pc = "verifying"
    /\ receiver' = VerifyChecksum(receiver)
    /\ UNCHANGED <<serverVars, signaling, sender>>

ReceiverManifestTimer ==
    /\ receiver.timer30
    /\ receiver' = ManifestTimeout(receiver)
    /\ UNCHANGED <<serverVars, signaling, sender>>

ReceiverReceiveTimer ==
    /\ receiver.timer300
    /\ receiver' = ReceiveTimeout(receiver)
    /\ UNCHANGED <<serverVars, signaling, sender>>

NextReceive ==
    \/ CallReceiveFile
    \/ ReceiverManifest
    \/ ReceiverChunk
    \/ ReceiverVerify
    \/ ReceiverManifestTimer
    \/ ReceiverReceiveTimer

SpecReceive == InitIn(Quiet) /\ [][NextReceive]_vars

(***************************************************************************)
(* What the claims speak of.                                               *)
(***************************************************************************)
\* the step is the handling of a message
MessageStep == Idle /\ last'.kind = "message"

\* the step is the handling of a socket's close event
CloseStep == Idle /\ last'.kind = "close"

\* the message passes the replay check
Fresh(m, t) == m.tsKind = "number" /\ Abs(t - m.timestamp) <= MaxSkew

\* a join_session with every field of section 6.3
WellFormedJoin(m, t) ==
    /\ m.type = "join_session"
    /\ Fresh(m, t)
    /\ m.payload # NoPayload
    /\ m.sessionId # 0 /\ m.payload.token # 0
    /\ m.payload.clientId # "" /\ m.payload.displayName # ""

\* a relay with every field of section 6.3
WellFormedRelay(m, t) ==
    /\ m.type \in RelayTypes
    /\ Fresh(m, t)
    /\ m.sessionId # 0 /\ m.from # "" /\ m.to # ""

\* the session is in the registry and its expiry time has not passed
Live(sessionId) ==
    sessionId \in DOMAIN sessions /\ now <= sessions[sessionId].expiresAt

\* the sends of the step are one error with this code, on this socket
AnsweredWith(out, s, code) ==
    /\ Len(out) = 1
    /\ out[1].to = s
    /\ out[1].msg.type = "error"
    /\ out[1].msg.payload.code = code

\* the step added no member to any session and made no session
NoMemberAdded ==
    \A x \in DOMAIN sessions' :
        /\ x \in DOMAIN sessions
        /\ \A i \in 1..Len(sessions'[x].clients) :
              \E j \in 1..Len(sessions[x].clients) :
                  sessions'[x].clients[i] = sessions[x].clients[j]

ServerTypes == {"session_created", "session_joined", "peer_joined", "peer_left",
                "peer_disconnected", "error"}

(***************************************************************************)
(* C1: every session has at most 2 members, and a well-formed join_session *)
(* with the right token for a live session that has 2 members is answered  *)
(* with error SESSION_FULL and leaves the member set as it was.            *)
(***************************************************************************)
MembersBounded == \A x \in DOMAIN sessions : Len(sessions[x].clients) <= 2

FullJoinRefused ==
    LET m == last'.msg
        x == m.sessionId
    IN (/\ MessageStep
        /\ WellFormedJoin(m, now)
        /\ Live(x)
        /\ Len(sessions[x].clients) = 2
        /\ m.payload.token = sessions[x].token)
       => /\ AnsweredWith(sent', last'.socket, "SESSION_FULL")
          /\ x \in DOMAIN sessions'
          /\ sessions'[x].clients = sessions[x].clients

C1_SessionFull == []MembersBounded /\ [][FullJoinRefused]_vars

\* a third connection was refused by a session with two members
C1_Witness ==
    /\ last.kind = "message"
    /\ last.msg.type = "join_session"
    /\ AnsweredWith(sent, last.socket, "SESSION_FULL")
    /\ last.msg.sessionId \in DOMAIN sessions
    /\ Len(sessions[last.msg.sessionId].clients) = 2
    /\ last.socket \notin SocketsOf(sessions[last.msg.sessionId].clients)
    /\ sent[1].ok

(***************************************************************************)
(* C2: a well-formed join_session for a session of the registry with a     *)
(* token that is not the session's is answered with error INVALID_TOKEN,   *)
(* adds no member, binds no connection and sends nothing to anyone else.   *)
(***************************************************************************)
WrongTokenRefused ==
    LET m == last'.msg
        x == m.sessionId
    IN (/\ MessageStep
        /\ WellFormedJoin(m, now)
        /\ x \in DOMAIN sessions
        /\ m.payload.token # sessions[x].token)
       => /\ AnsweredWith(sent', last'.socket, "INVALID_TOKEN")
          /\ NoMemberAdded
          /\ clientSessions' = clientSessions

C2_InvalidToken == [][WrongTokenRefused]_vars

\* a join with a wrong token was refused while the session had an open member
C2_Witness ==
    /\ last.kind = "message"
    /\ last.msg.type = "join_session"
    /\ AnsweredWith(sent, last.socket, "INVALID_TOKEN")
    /\ last.msg.sessionId \in DOMAIN sessions
    /\ sessions[last.msg.sessionId].token # last.msg.payload.token
    /\ \E c \in SocketsOf(sessions[last.msg.sessionId].clients) :
          c # last.socket /\ status[c] = "open"

(***************************************************************************)
(* C3: a message the server originates carries a token only if it is the   *)
(* session_created answer to the create_session just handled, written to   *)
(* the connection that sent it, and the token is that of the session made. *)
(***************************************************************************)
C3_TokenOnlyToCreator ==
    \A i \in 1..Len(sent) :
        LET out == sent[i]
        IN (out.msg.type \in ServerTypes /\ "token" \in DOMAIN out.msg.payload)
           => /\ out.msg.type = "session_created"
              /\ last.kind = "message"
              /\ last.msg.type = "create_session"
              /\ out.to = last.socket
              /\ out.msg.payload.sessionId = totalSessionsCreated
              /\ out.msg.payload.sessionId \in DOMAIN sessions
              /\ out.msg.payload.token = sessions[out.msg.payload.sessionId].token

\* a join succeeded and both notifications were written
C3_Witness ==
    /\ Len(sent) = 2
    /\ sent[1].msg.type = "session_joined" /\ sent[1].ok
    /\ sent[2].msg.type = "peer_joined" /\ sent[2].ok

(***************************************************************************)
(* C4: a well-formed relay whose from is not the clientId bound to the     *)
(* connection it arrived on (another member's, or the connection is bound  *)
(* to no session) is answered with error UNAUTHORIZED and nothing is       *)
(* forwarded.                                                              *)
(***************************************************************************)
SpoofedRelayRefused ==
    LET m == last'.msg
        s == last'.socket
    IN (/\ MessageStep
        /\ WellFormedRelay(m, now)
        /\ \/ clientSessions[s] = <<>>
           \/ clientSessions[s][1].clientId # m.from)
       => AnsweredWith(sent', s, "UNAUTHORIZED")

C4_FromIsBoundClient == [][SpoofedRelayRefused]_vars

(***************************************************************************)
(* C5: when a relay is forwarded, the session its sessionId names is in    *)
(* the registry, has a member whose clientId is from, and the socket       *)
(* written to is that of the session's member whose clientId is to.  (The  *)
(* handler that forwards changes no state, so the state after it is the    *)
(* state at the moment of the forward.)                                    *)
(***************************************************************************)
C5_RelayWithinSession ==
    \A i \in 1..Len(sent) :
        LET m == sent[i].msg
        IN m.type \in RelayTypes
           => /\ m.sessionId \in DOMAIN sessions
              /\ MapHas(sessions[m.sessionId].clients, m.from)
              /\ MapHas(sessions[m.sessionId].clients, m.to)
              /\ MapGet(sessions[m.sessionId].clients, m.to)[1].socket = sent[i].to

\* a relay was delivered to another connection
C5_Witness ==
    /\ last.kind = "message"
    /\ Len(sent) = 1
    /\ sent[1].msg.type \in RelayTypes
    /\ sent[1].ok
    /\ sent[1].to # last.socket
    /\ sent[1].msg.from # sent[1].msg.to

(***************************************************************************)
(* C6: the envelope written for an accepted relay has the type, from, to,  *)
(* sessionId, timestamp and payload of the envelope received.              *)
(***************************************************************************)
C6_RelayVerbatim ==
    \A i \in 1..Len(sent) :
        LET m == sent[i].msg
        IN m.type \in RelayTypes
           => /\ last.kind = "message"
              /\ m.type = last.msg.type
              /\ m.from = last.msg.from
              /\ m.to = last.msg.to
              /\ m.sessionId = last.msg.sessionId
              /\ m.timestamp = last.msg.timestamp
              /\ m.payload = last.msg.payload
              /\ DOMAIN m = DOMAIN last.msg

\* a relay whose timestamp is not the server's clock was delivered
C6_Witness ==
    /\ last.kind = "message"
    /\ Len(sent) = 1
    /\ sent[1].msg.type = "answer"
    /\ sent[1].ok
    /\ sent[1].msg.timestamp # now
    /\ sent[1].msg.payload.data = "sdp2"

(***************************************************************************)
(* C7: a relay is never written back to the connection that sent it, also  *)
(* not when the sender names itself in to.                                 *)
(***************************************************************************)
C7_NeverBackToSender ==
    \A i \in 1..Len(sent) :
        sent[i].msg.type \in RelayTypes => sent[i].to # last.socket

(***************************************************************************)
(* C8: happy pair.  A live session has one member, A, on an open           *)
(* connection bound to it; a well-formed join_session with the session's   *)
(* token arrives on another open connection, B, bound to no session, with  *)
(* another clientId.  Then B is written session_joined with A's clientId   *)
(* and displayName, A is written peer_joined with B's, the members are     *)
(* exactly A and B, and both connections are bound to the session.         *)
(***************************************************************************)
HappyPair ==
    LET m == last'.msg
        b == last'.socket
        x == m.sessionId
    IN (/\ MessageStep
        /\ WellFormedJoin(m, now)
        /\ Live(x)
        /\ m.payload.token = sessions[x].token
        /\ Len(sessions[x].clients) = 1
        /\ sessions[x].clients[1].socket # b
        /\ sessions[x].clients[1].clientId # m.payload.clientId
        /\ clientSessions[sessions[x].clients[1].socket]
              = <<[sessionId |-> x, clientId |-> sessions[x].clients[1].clientId]>>
        /\ clientSessions[b] = <<>>
        /\ status[sessions[x].clients[1].socket] = "open"
        /\ status[b] = "open")
       => LET a == sessions[x].clients[1]
              joiner == [clientId |-> m.payload.clientId,
                         displayName |-> m.payload.displayName, socket |-> b]
          IN /\ Len(sent') = 2
             /\ sent'[1].to = b /\ sent'[1].ok
             /\ sent'[1].msg.type = "session_joined"
             /\ sent'[1].msg.payload
                   = [peerId |-> a.clientId, peerDisplayName |-> a.displayName]
             /\ sent'[2].to = a.socket /\ sent'[2].ok
             /\ sent'[2].msg.type = "peer_joined"
             /\ sent'[2].msg.payload
                   = [peerId |-> joiner.clientId, peerDisplayName |-> joiner.displayName]
             /\ x \in DOMAIN sessions'
             /\ sessions'[x].clients = <<a, joiner>>
             /\ clientSessions'[b] = <<[sessionId |-> x, clientId |-> joiner.clientId]>>
             /\ clientSessions'[a.socket] = clientSessions[a.socket]

C8_HappyPair == [][HappyPair]_vars

\* a join has paired two open connections, each bound to the session
C8_Witness ==
    /\ last.kind = "message"
    /\ last.msg.type = "join_session"
    /\ Len(sent) = 2
    /\ sent[1].ok /\ sent[2].ok
    /\ sent[1].to = last.socket /\ sent[2].to # last.socket
    /\ LET x == last.msg.sessionId
       IN /\ x \in DOMAIN sessions
          /\ Len(sessions[x].clients) = 2
          /\ sessions[x].clients[1].socket = sent[2].to
          /\ sessions[x].clients[2].socket = last.socket
          /\ \A i \in 1..2 :
                clientSessions[sessions[x].clients[i].socket]
                  = <<[sessionId |-> x, clientId |-> sessions[x].clients[i].clientId]>>

(***************************************************************************)
(* C9: when the transport of a connection closes, then for every live      *)
(* session in which the connection is a member and another member is on    *)
(* an open connection, that member is written peer_disconnected with the   *)
(* departed member's clientId, the departed member is removed and the      *)
(* session stays with the remaining member.                                *)
(***************************************************************************)
PeerToldOfClose ==
    CloseStep =>
        \A x \in DOMAIN sessions :
            \A i, j \in 1..Len(sessions[x].clients) :
                LET gone == sessions[x].clients[i]
                    peer == sessions[x].clients[j]
                IN (/\ Live(x)
                    /\ i # j
                    /\ gone.socket = last'.socket
                    /\ peer.socket # last'.socket
                    /\ status[peer.socket] = "open")
                   => /\ \E k \in 1..Len(sent') :
                            /\ sent'[k].to = peer.socket
                            /\ sent'[k].ok
                            /\ sent'[k].msg.type = "peer_disconnected"
                            /\ sent'[k].msg.sessionId = x
                            /\ sent'[k].msg.payload.peerId = gone.clientId
                      /\ x \in DOMAIN sessions'
                      /\ sessions'[x].clients = <<peer>>

C9_PeerDisconnected == [][PeerToldOfClose]_vars

(***************************************************************************)
(* C10: when the only member left in a session leaves, by the close of its *)
(* transport or by a session_close on the connection bound to the session, *)
(* the session is removed in that step; a removed session does not come    *)
(* back, and a join_session succeeds only for a session of the registry.   *)
(***************************************************************************)
LastMemberGone ==
    /\ CloseStep =>
          \A x \in DOMAIN sessions :
              (/\ Len(sessions[x].clients) = 1
               /\ sessions[x].clients[1].socket = last'.socket)
              => x \notin DOMAIN sessions'
    /\ (/\ MessageStep
        /\ last'.msg.type = "session_close"
        /\ Fresh(last'.msg, now)
        /\ clientSessions[last'.socket] # <<>>)
       => LET x == clientSessions[last'.socket][1].sessionId
          IN (/\ x \in DOMAIN sessions
              /\ Len(sessions[x].clients) = 1
              /\ sessions[x].clients[1].socket = last'.socket)
             => x \notin DOMAIN sessions'

RemovedStaysRemoved ==
    \A x \in 1..totalSessionsCreated :
        x \notin DOMAIN sessions => x \notin DOMAIN sessions'

JoinNeedsSession ==
    (/\ MessageStep
     /\ last'.msg.type = "join_session"
     /\ \E k \in 1..Len(sent') : sent'[k].msg.type = "session_joined")
    => last'.msg.sessionId \in DOMAIN sessions

C10_LastMemberRemovesSession ==
    [][LastMemberGone /\ RemovedStaysRemoved /\ JoinNeedsSession]_vars

(***************************************************************************)
(* C11: whenever a message handler, the disconnect handler or the sweeper  *)
(* has run to completion, no session of the registry has zero members.     *)
(* (Handlers are atomic, so every state of the model is such a point.)     *)
(***************************************************************************)
C11_NoEmptySession ==
    \A x \in DOMAIN sessions : Len(sessions[x].clients) >= 1

\* before any session can expire, the last member has left and the registry
\* is empty again
C11_Witness ==
    /\ \/ last.kind = "close"
       \/ last.kind = "message" /\ last.msg.type = "session_close"
    /\ now = 0
    /\ totalSessionsCreated >= 1
    /\ DOMAIN sessions = {}
    /\ clientSessions[last.socket] = <<>>

(***************************************************************************)
(* C12 as stated: whenever a handler or the sweeper has run to completion, *)
(* every session of the registry has now < expiresAt.                      *)
(***************************************************************************)
C12_NoExpiredSession ==
    last.kind \in {"message", "close", "sweep"}
    => \A x \in DOMAIN sessions : now < sessions[x].expiresAt

(***************************************************************************)
(* C12 as amended: when the sweeper has just run to completion, no session *)
(* whose expiration time lies before now (expiresAt < now) is in the       *)
(* registry.                                                               *)
(***************************************************************************)
C12_NoneExpiredAfterSweep ==
    last.kind = "sweep"
    => \A x \in DOMAIN sessions : ~(sessions[x].expiresAt < now)

\* a sweep has removed an expired session, closing a socket still bound to
\* it, and has left a later session in place
C12_Witness ==
    /\ last.kind = "sweep"
    /\ now = TTL + 1
    /\ \E x \in DOMAIN sessions : sessions[x].expiresAt > now
    /\ \E s \in Sockets :
          /\ status[s] = "closing"
          /\ clientSessions[s] # <<>>
          /\ clientSessions[s][1].sessionId \notin DOMAIN sessions

(***************************************************************************)
(* C13: a run of the sweeper at time now removes every session with        *)
(* expiresAt <= now, equality included, leaves none of its members'        *)
(* sockets open, writes no message to anyone, and leaves every session     *)
(* with expiresAt > now as it was.                                         *)
(***************************************************************************)
SweepRemovesExpired ==
    (Idle /\ last'.kind = "sweep")
    => /\ sent' = <<>>
       /\ \A x \in DOMAIN sessions :
             IF sessions[x].expiresAt <= now
             THEN /\ x \notin DOMAIN sessions'
                  /\ \A s \in SocketsOf(sessions[x].clients) : status'[s] # "open"
             ELSE /\ x \in DOMAIN sessions'
                  /\ sessions'[x] = sessions[x]

C13_SweepRemovesExpired == [][SweepRemovesExpired]_vars

(***************************************************************************)
(* C14: a well-formed join_session naming a session that is not in the     *)
(* registry is answered with error SESSION_NOT_FOUND, whatever its token.  *)
(***************************************************************************)
UnknownSessionJoin ==
    LET m == last'.msg
    IN (/\ MessageStep
        /\ WellFormedJoin(m, now)
        /\ m.sessionId \notin DOMAIN sessions)
       => AnsweredWith(sent', last'.socket, "SESSION_NOT_FOUND")

C14_SessionNotFound == [][UnknownSessionJoin]_vars

(***************************************************************************)
(* C15: a message of any type whose timestamp is more than MaxSkew before  *)
(* or after the server's clock is answered with error INVALID_TIMESTAMP    *)
(* and changes neither the sessions nor the bindings; a message whose      *)
(* timestamp is within MaxSkew, the ends included, is not answered         *)
(* INVALID_TIMESTAMP.                                                      *)
(***************************************************************************)
TimestampWindow ==
    LET m == last'.msg
    IN (MessageStep /\ m.tsKind = "number")
       => IF m.timestamp < now - MaxSkew \/ m.timestamp > now + MaxSkew
          THEN /\ AnsweredWith(sent', last'.socket, "INVALID_TIMESTAMP")
               /\ UNCHANGED <<sessions, totalSessionsCreated, clientSessions, status>>
          ELSE \A k \in 1..Len(sent') :
                  sent'[k].msg.type = "error"
                  => sent'[k].msg.payload.code # "INVALID_TIMESTAMP"

C15_TimestampWindow == [][TimestampWindow]_vars

\* a join that its token and the room in the session would have let in is
\* refused for a timestamp just beyond the window, in the future
C15_Witness ==
    /\ last.kind = "message"
    /\ last.msg.type = "join_session"
    /\ last.msg.timestamp = now + MaxSkew + 1
    /\ AnsweredWith(sent, last.socket, "INVALID_TIMESTAMP")
    /\ Live(last.msg.sessionId)
    /\ last.msg.payload.token = sessions[last.msg.sessionId].token
    /\ Len(sessions[last.msg.sessionId].clients) = 1
    /\ clientSessions[last.socket] = <<>>

(***************************************************************************)
(* C16: idempotent close.  A session_close on a connection bound to a live *)
(* two-member session, of which it is a member and whose other member is   *)
(* on an open connection, writes exactly one message, peer_left to the     *)
(* peer, removes the member and clears the binding; a session_close on a   *)
(* connection with no binding, as the second of two is, writes nothing and *)
(* changes no registry.                                                    *)
(***************************************************************************)
CloseOnce ==
    LET m == last'.msg
        s == last'.socket
    IN (/\ MessageStep
        /\ m.type = "session_close"
        /\ Fresh(m, now)
        /\ m.payload # NoPayload)
       => IF clientSessions[s] = <<>>
          THEN /\ sent' = <<>>
               /\ UNCHANGED <<sessions, totalSessionsCreated, clientSessions, status>>
          ELSE LET x == clientSessions[s][1].sessionId
                   c == clientSessions[s][1].clientId
               IN (/\ Live(x)
                   /\ Len(sessions[x].clients) = 2
                   /\ MapHas(sessions[x].clients, c)
                   /\ MapGet(sessions[x].clients, c)[1].socket = s
                   /\ \A i \in 1..2 :
                         sessions[x].clients[i].clientId # c
                         => /\ sessions[x].clients[i].socket # s
                            /\ status[sessions[x].clients[i].socket] = "open")
                  => LET peer == sessions[x].clients[
                                     CHOOSE i \in 1..2 : sessions[x].clients[i].clientId # c]
                     IN /\ Len(sent') = 1
                        /\ sent'[1].to = peer.socket
                        /\ sent'[1].ok
                        /\ sent'[1].msg.type = "peer_left"
                        /\ sent'[1].msg.payload.peerId = c
                        /\ clientSessions'[s] = <<>>
                        /\ x \in DOMAIN sessions'
                        /\ sessions'[x].clients = <<peer>>

CreateWhileBound ==
    LET m == last'.msg
    IN (/\ MessageStep
        /\ m.type = "create_session"
        /\ Fresh(m, now)
        /\ m.payload # NoPayload
        /\ m.payload.clientId # "" /\ m.payload.displayName # ""
        /\ clientSessions[last'.socket] # <<>>)
       => /\ AnsweredWith(sent', last'.socket, "INVALID_STATE")
          /\ UNCHANGED <<sessions, totalSessionsCreated, clientSessions>>

C17_CreateWhileBound == [][CreateWhileBound]_vars

(***************************************************************************)
(* C18: a well-formed join_session with the session's token, on a          *)
(* connection that is already a member of the live session it names, is    *)
(* answered with error INVALID_STATE and changes no member and no binding. *)
(***************************************************************************)
JoinWhileMember ==
    LET m == last'.msg
        x == m.sessionId
    IN (/\ MessageStep
        /\ WellFormedJoin(m, now)
        /\ Live(x)
        /\ m.payload.token = sessions[x].token
        /\ last'.socket \in SocketsOf(sessions[x].clients))
       => /\ AnsweredWith(sent', last'.socket, "INVALID_STATE")
          /\ UNCHANGED <<sessions, clientSessions>>

C18_JoinWhileMember == [][JoinWhileMember]_vars

(***************************************************************************)
(* C19: a well-formed join_session with the session's token whose clientId *)
(* is that of a member the live session already has on another connection  *)
(* does not succeed: the member map, the record of that member and its     *)
(* socket included, stays as it was, no session_joined is written and the  *)
(* joining connection is not bound.                                        *)
(***************************************************************************)
DuplicateRefused ==
    LET m == last'.msg
        x == m.sessionId
    IN (/\ MessageStep
        /\ WellFormedJoin(m, now)
        /\ Live(x)
        /\ m.payload.token = sessions[x].token
        /\ MapHas(sessions[x].clients, m.payload.clientId)
        /\ MapGet(sessions[x].clients, m.payload.clientId)[1].socket # last'.socket)
       => /\ x \in DOMAIN sessions'
          /\ sessions'[x].clients = sessions[x].clients
          /\ clientSessions'[last'.socket] = clientSessions[last'.socket]
          /\ \A k \in 1..Len(sent') : sent'[k].msg.type # "session_joined"

C19_UniqueClientId == [][DuplicateRefused]_vars

(***************************************************************************)
(* C20: in every reachable state, a connection with a binding (sessionId,  *)
(* clientId) names a session of the registry whose member clientId is on   *)
(* that connection.                                                        *)
(***************************************************************************)
C20_BindingsNameMembers ==
    \A s \in Sockets :
        clientSessions[s] # <<>>
        => LET x == clientSessions[s][1].sessionId
               c == clientSessions[s][1].clientId
           IN /\ x \in DOMAIN sessions
              /\ MapHas(sessions[x].clients, c)
              /\ MapGet(sessions[x].clients, c)[1].socket = s

(***************************************************************************)
(* C21: in every reachable state, the connection of every member of every  *)
(* session has the binding (that session, that clientId), and no           *)
(* connection is the connection of members of two sessions.                *)
(***************************************************************************)
C21_MembersAreBound ==
    /\ \A x \in DOMAIN sessions :
          \A i \in 1..Len(sessions[x].clients) :
              clientSessions[sessions[x].clients[i].socket]
                = <<[sessionId |-> x, clientId |-> sessions[x].clients[i].clientId]>>
    /\ \A x, y \in DOMAIN sessions :
          x # y => SocketsOf(sessions[x].clients) \cap SocketsOf(sessions[y].clients) = {}

(***************************************************************************)
(* C22: a well-formed relay from a connection that is bound to no session  *)
(* (NEW), or that is the only member of the session it is bound to         *)
(* (CREATOR_WAITING), is answered with error UNAUTHORIZED and nothing else *)
(* is written.                                                             *)
(***************************************************************************)
RelayBeforePaired ==
    LET m == last'.msg
        s == last'.socket
    IN (/\ MessageStep
        /\ WellFormedRelay(m, now)
        /\ \/ clientSessions[s] = <<>>
           \/ /\ clientSessions[s][1].sessionId \in DOMAIN sessions
              /\ SocketsOf(sessions[clientSessions[s][1].sessionId].clients) = {s})
       => AnsweredWith(sent', s, "UNAUTHORIZED")

C22_RelayBeforePaired == [][RelayBeforePaired]_vars

(***************************************************************************)
(* C23: a well-formed relay from a connection bound to a live two-member   *)
(* session in which it is the member from, naming that session and in to a *)
(* clientId that no member of the session has, is answered with error      *)
(* PEER_NOT_FOUND and nothing else is written.                             *)
(***************************************************************************)
UnknownRecipient ==
    LET m == last'.msg
        s == last'.socket
        x == m.sessionId
    IN (/\ MessageStep
        /\ WellFormedRelay(m, now)
        /\ clientSessions[s] = <<[sessionId |-> x, clientId |-> m.from]>>
        /\ Live(x)
        /\ Len(sessions[x].clients) = 2
        /\ MapHas(sessions[x].clients, m.from)
        /\ MapGet(sessions[x].clients, m.from)[1].socket = s
        /\ ~MapHas(sessions[x].clients, m.to))
       => AnsweredWith(sent', s, "PEER_NOT_FOUND")

C23_PeerNotFound == [][UnknownRecipient]_vars

\* a member of a pair, its peer on an open connection, was told that the
\* recipient it named is not there
C23_Witness ==
    /\ last.kind = "message"
    /\ last.msg.type \in RelayTypes
    /\ AnsweredWith(sent, last.socket, "PEER_NOT_FOUND")
    /\ sent[1].ok
    /\ clientSessions[last.socket]
          = <<[sessionId |-> last.msg.sessionId, clientId |-> last.msg.from]>>
    /\ Live(last.msg.sessionId)
    /\ Len(sessions[last.msg.sessionId].clients) = 2
    /\ \A c \in SocketsOf(sessions[last.msg.sessionId].clients) : status[c] = "open"
    /\ last.socket \in SocketsOf(sessions[last.msg.sessionId].clients)

(***************************************************************************)
(* C24: every error message is written to the connection whose frame was   *)
(* just handled, and to no other connection.                               *)
(***************************************************************************)
C24_ErrorsToOriginator ==
    \A i \in 1..Len(sent) :
        sent[i].msg.type = "error"
        => /\ last.kind \in {"message", "unparsable"}
           /\ sent[i].to = last.socket

\* a member of a pair whose peer is on an open connection was answered with
\* an error
C24_Witness ==
    /\ last.kind = "message"
    /\ Len(sent) = 1
    /\ sent[1].msg.type = "error"
    /\ sent[1].ok
    /\ clientSessions[last.socket] # <<>>
    /\ clientSessions[last.socket][1].sessionId \in DOMAIN sessions
    /\ LET cl == sessions[clientSessions[last.socket][1].sessionId].clients
       IN /\ Len(cl) = 2
          /\ last.socket \in SocketsOf(cl)
          /\ \E c \in SocketsOf(cl) : c # last.socket /\ status[c] = "open"

(***************************************************************************)
(* C25 as stated: when a frame that does not parse has been handled, the   *)
(* server has closed the connection it came on: the socket is not open.    *)
(***************************************************************************)
UnparsableCloses ==
    (Idle /\ last'.kind = "unparsable") => status'[last'.socket] # "open"

UnparsableAnswered ==
    (Idle /\ last'.kind = "unparsable")
    => /\ AnsweredWith(sent', last'.socket, "INVALID_MESSAGE")
       /\ UNCHANGED <<sessions, totalSessionsCreated, clientSessions, status>>

CleanupStep ==
    (Idle /\ last'.kind = "shutdown")
    => /\ cleanupInterval' = "cleared"
       /\ sessions' = <<>>
       /\ \A x \in DOMAIN sessions :
             \A s \in SocketsOf(sessions[x].clients) : status'[s] # "open"

AfterCleanup ==
    cleanupInterval = "cleared"
    => /\ sessions = <<>>
       /\ (\A s \in Sockets : status[s] # "closing")
             => \A s \in Sockets : clientSessions[s] = <<>>

C28_Shutdown == [][CleanupStep]_vars /\ []AfterCleanup

(***************************************************************************)
(* C29 as stated: a message that parses and is answered with an error      *)
(* leaves the sessions, their members and the bindings as they were, and   *)
(* the connection it came on as it was.                                    *)
(***************************************************************************)
ErrorAnswered ==
    /\ MessageStep
    /\ \E k \in 1..Len(sent') : sent'[k].msg.type = "error"

ErrorChangesNothing ==
    ErrorAnswered
    => /\ UNCHANGED <<sessions, clientSessions>>
       /\ status'[last'.socket] = status[last'.socket]

C29_ErrorChangesNothing == [][ErrorChangesNothing]_vars

(***************************************************************************)
(* C29 as amended: a message that parses and is answered with an error     *)
(* changes no binding and no session whose expiration time has not passed; *)
(* the only change it can make is the removal of sessions whose expiration *)
(* time has passed (expiresAt < now), with the sockets of their members    *)
(* closed, the sender's too if it is one of them.                          *)
(***************************************************************************)
ErrorRemovesOnlyExpired ==
    ErrorAnswered
    => /\ UNCHANGED <<clientSessions, totalSessionsCreated>>
       /\ DOMAIN sessions' \subseteq DOMAIN sessions
       /\ \A x \in DOMAIN sessions :
             IF x \in DOMAIN sessions'
             THEN sessions'[x] = sessions[x]
             ELSE sessions[x].expiresAt < now
       /\ \A s \in Sockets :
             \/ status'[s] = status[s]
             \/ /\ status[s] = "open" /\ status'[s] = "closing"
                /\ \E x \in DOMAIN sessions \ DOMAIN sessions' :
                      s \in SocketsOf(sessions[x].clients)

C29_ErrorRemovesOnlyExpired == [][ErrorRemovesOnlyExpired]_vars

\* a join was refused because the session is full, the sender is open and a
\* session is live
C29_Witness ==
    /\ last.kind = "message"
    /\ AnsweredWith(sent, last.socket, "SESSION_FULL")
    /\ sent[1].ok
    /\ Live(last.msg.sessionId)
    /\ status[last.socket] = "open"
    /\ clientSessions[last.socket] = <<>>

(***************************************************************************)
(* C27: once a join_session has succeeded for a session, no later          *)
(* join_session for that session succeeds, whoever has left it since.      *)
(* (Checked in the runs that keep the history of the joins.)               *)
(***************************************************************************)
TokenConsumed ==
    (/\ MessageStep
     /\ last'.msg.type = "join_session"
     /\ last'.msg.sessionId \in hist.joined)
    => \A k \in 1..Len(sent') : sent'[k].msg.type # "session_joined"

C27_TokenConsumed == [][TokenConsumed]_vars

(***************************************************************************)
(* C30: the relay messages written while the frames of one sender are      *)
(* handled are, in order and one for one, the relay frames of that sender  *)
(* that were not refused: none is written twice, left out or out of order. *)
(* (Checked in the runs that keep the history of the relays of Tracked.)   *)
(***************************************************************************)
C30_RelayOrder == hist.written = hist.accepted

\* two different relays of the sender were written in the order they came,
\* the second one to an open connection of its peer
C30_Witness ==
    /\ Len(hist.accepted) = 2
    /\ hist.accepted[1] # hist.accepted[2]
    /\ hist.written = hist.accepted
    /\ last.kind = "message"
    /\ last.socket = Tracked
    /\ Len(sent) = 1
    /\ sent[1].msg.type = hist.accepted[2]
    /\ sent[1].ok
    /\ sent[1].to # Tracked

(***************************************************************************)
(* C26: once an address has made CreateCap sessions within the hour, its   *)
(* next create_session is answered with the error RATE_LIMIT_EXCEEDED and  *)
(* makes no session and no member.  (Checked in the runs of one address,   *)
(* before the clock is moved: every session was made by that address in    *)
(* that hour.  join_session has the same shape with its own number.)       *)
(***************************************************************************)
CreateRateLimited ==
    (/\ MessageStep
     /\ last'.msg.type = "create_session"
     /\ Fresh(last'.msg, now)
     /\ universe.sockets = {last'.socket}
     /\ ticks = 0
     /\ totalSessionsCreated >= CreateCap)
    => /\ AnsweredWith(sent', last'.socket, "RATE_LIMIT_EXCEEDED")
       /\ totalSessionsCreated' = totalSessionsCreated
       /\ NoMemberAdded

C26_CreateRateLimited == [][CreateRateLimited]_vars

(***************************************************************************)
(* C31: on every connection the join notifications come before the relays: *)
(* a connection that joined is written no relay before session_joined, a   *)
(* connection that created is written no peer_joined before                *)
(* session_created, and no relay sent by a connection that joined before   *)
(* peer_joined.  (Checked in the runs that keep the history of the         *)
(* notifications.)                                                         *)
(***************************************************************************)
\* the notifications the socket of the k-th write of the step had been
\* written before that write
Before(k) ==
    hist.got[sent'[k].to]
      \cup Notified(SubSeq(sent', 1, k - 1), sent'[k].to)

NoticesFirst ==
    MessageStep =>
      \A k \in 1..Len(sent') :
        LET w == sent'[k]
        IN w.ok =>
             /\ (w.msg.type \in RelayTypes /\ hist.role[w.to] = "joiner")
                  => "session_joined" \in Before(k)
             /\ (w.msg.type = "peer_joined" /\ hist.role[w.to] = "creator")
                  => "session_created" \in Before(k)
             /\ (/\ w.msg.type \in RelayTypes
                 /\ hist.role[w.to] = "creator"
                 /\ hist.role[last'.socket] = "joiner")
                  => "peer_joined" \in Before(k)

C31_NoticesFirst == [][NoticesFirst]_vars

\* a connection that joined has relayed to the connection that created
C31_Witness ==
    /\ last.kind = "message"
    /\ last.msg.type \in RelayTypes
    /\ hist.role[last.socket] = "joiner"
    /\ Len(sent) = 1
    /\ sent[1].msg.type \in RelayTypes
    /\ sent[1].ok
    /\ sent[1].to # last.socket
    /\ hist.role[sent[1].to] = "creator"
    /\ hist.got[sent[1].to] = {"session_created", "peer_joined"}

(***************************************************************************)
(* C32: a message that carries no timestamp, or a timestamp that is no     *)
(* number, is answered with one error on its own connection and makes no   *)
(* session, adds no member and relays nothing.                             *)
(***************************************************************************)
TimestampRequired ==
    (MessageStep /\ last'.msg.tsKind # "number")
    => /\ Len(sent') = 1
       /\ sent'[1].to = last'.socket
       /\ sent'[1].msg.type = "error"
       /\ totalSessionsCreated' = totalSessionsCreated
       /\ NoMemberAdded

C32_TimestampRequired == [][TimestampRequired]_vars

(***************************************************************************)
(* C33: once the clock has passed the expiry time of a session that the    *)
(* sweeper has not removed yet, a join_session with the session's token    *)
(* and a relay naming the session are answered with an error, nothing is   *)
(* forwarded and nobody is added; that access deletes the session and      *)
(* closes the connections of its members.                                  *)
(***************************************************************************)
ExpiredIsGone ==
    LET m == last'.msg
        x == m.sessionId
    IN (/\ MessageStep
        /\ \/ WellFormedJoin(m, now) /\ x \in DOMAIN sessions
                 /\ m.payload.token = sessions[x].token
           \/ WellFormedRelay(m, now)
        /\ x \in DOMAIN sessions
        /\ now > sessions[x].expiresAt)
       => /\ Len(sent') = 1
          /\ sent'[1].to = last'.socket
          /\ sent'[1].msg.type = "error"
          /\ NoMemberAdded
          /\ x \notin DOMAIN sessions'
          /\ \A i \in 1..Len(sessions[x].clients) :
                status'[sessions[x].clients[i].socket] # "open"

C33_ExpiredIsGone == [][ExpiredIsGone]_vars

\* a relay was refused after the last reading of the clock, the session it
\* names is gone though the sender is still bound to it, and the sender's
\* connection is closing
C33_Witness ==
    /\ last.kind = "message"
    /\ last.msg.type \in RelayTypes
    /\ last.msg.tsKind = "number"
    /\ now = TTL + 1
    /\ AnsweredWith(sent, last.socket, "UNAUTHORIZED")
    /\ ~sent[1].ok
    /\ status[last.socket] = "closing"
    /\ clientSessions[last.socket] # <<>>
    /\ clientSessions[last.socket][1].sessionId = last.msg.sessionId
    /\ clientSessions[last.socket][1].clientId = last.msg.from
    /\ last.msg.sessionId \notin DOMAIN sessions

(***************************************************************************)
(* C34: a session_close or a transport close on a connection removes only  *)
(* a member whose connection it is: every member held by another           *)
(* connection stays a member of its session, and the connection of that    *)
(* member is not closed.                                                   *)
(***************************************************************************)
CloseTouchesOwn ==
    ((MessageStep /\ last'.msg.type = "session_close") \/ CloseStep)
    => \A x \in DOMAIN sessions :
         \A i \in 1..Len(sessions[x].clients) :
           LET member == sessions[x].clients[i]
           IN member.socket # last'.socket
              => /\ x \in DOMAIN sessions'
                 /\ \E j \in 1..Len(sessions'[x].clients) :
                       sessions'[x].clients[j] = member
                 /\ status'[member.socket] = status[member.socket]

C34_CloseTouchesOwn == [][CloseTouchesOwn]_vars

(***************************************************************************)
(* C35: the reconnect attempts scheduled since the last successful open    *)
(* are delayed by 1 s, 2 s, 4 s, 8 s and 16 s in this order, and there are *)
(* at most five of them: after the fifth has failed none is scheduled, and *)
(* after an open the delays start from 1 s again.                          *)
(***************************************************************************)
Backoff == <<1000, 2000, 4000, 8000, 16000>>

C35_Backoff ==
    /\ Len(signaling.scheduled) <= 5
    /\ signaling.scheduled = SubSeq(Backoff, 1, Len(signaling.scheduled))

\* the connection and its five reconnections have failed and nothing is
\* scheduled
C35_Witness ==
    /\ signaling.scheduled = Backoff
    /\ signaling.timers = <<>>
    /\ Len(signaling.sockets) = 6
    /\ \A w \in 1..6 : signaling.sockets[w] = "closed"
    /\ ~signaling.stopped

(***************************************************************************)
(* C36: after the application has called disconnect(), and until it calls  *)
(* connect() again, no reconnect attempt is scheduled and no WebSocket is  *)
(* made.                                                                   *)
(***************************************************************************)
StaysDisconnected ==
    (signaling.stopped /\ signaling'.stopped)
    => /\ Len(signaling'.sockets) = Len(signaling.sockets)
       /\ Len(signaling'.timers) <= Len(signaling.timers)

C36_StaysDisconnected == [][StaysDisconnected]_vars

(***************************************************************************)
(* C37: file transfer is stop-and-wait.  The sender transmits a chunk only *)
(* after the manifest_ack of the manifest's fileId has reached it, chunk   *)
(* i + 1 only after the chunk_ack with the manifest's fileId and           *)
(* chunkIndex i has reached it, the chunks in the order 0, 1, ..., and it  *)
(* completes only after the chunk_ack of the last chunk has reached it.    *)
(***************************************************************************)
\* the chunks among the messages sent, by their chunkIndex
ChunksSent(out) == SelectSeq(out, LAMBDA msg : msg.type = "chunk")

StopAndWait ==
    /\ \A k \in 1..Len(sender'.out) :
         (k > Len(sender.out) /\ sender'.out[k].type = "chunk")
         => LET i == sender'.out[k].chunkIndex
            IN /\ ManifestAck(TheFile) \in sender.heard
               /\ i = Len(ChunksSent(sender.out))
               /\ i > 0 => ChunkAck(TheFile, i - 1) \in sender.heard
    /\ (sender.pc # "done" /\ sender'.pc = "done")
         => /\ ManifestAck(TheFile) \in sender.heard
            /\ Len(ChunksSent(sender.out)) = sender.chunkCount
            /\ sender.chunkCount > 0
                 => ChunkAck(TheFile, sender.chunkCount - 1) \in sender.heard

C37_StopAndWait == [][StopAndWait]_vars

(***************************************************************************)
(* C39: with a peer that answers the manifest and every chunk once, within *)
(* 30 s, the listener of the wait of sendFile stays installed until the    *)
(* answer has come, and sendFile does not fail: no timer of an earlier     *)
(* wait removes or replaces the listener of a later one.                   *)
(***************************************************************************)
C39_AcksObserved ==
    sender.peer = "prompt"
    => /\ sender.pc # "failed"
       /\ sender.pc = "waiting" => sender.onmessage = Len(sender.waits)

(***************************************************************************)
(* C38: the receiver hands a file to onComplete only if a chunk of the     *)
(* manifest's fileId has reached it for every index below chunkCount, the  *)
(* file is made of such chunks in the order of their indices, and the      *)
(* checksum of its bytes is the manifest's; when the checksum differs      *)
(* receiveFile fails.                                                      *)
(***************************************************************************)
VerifiedOnly ==
    LET r == receiver
        n == r.manifest.chunkCount
    IN /\ (r.pc # "done" /\ receiver'.pc = "done")
            => /\ \A i \in 0..(n - 1) : \E b \in Payloads : <<i, b>> \in r.arrived
               /\ Len(receiver'.blob) = n
               /\ \A i \in 0..(n - 1) : <<i, receiver'.blob[i + 1]>> \in r.arrived
               /\ Checksum(Flatten(receiver'.blob)) = r.manifest.checksum
       /\ (/\ r.pc = "verifying"
           /\ receiver'.pc # "verifying"
           /\ Checksum(Flatten(r.blob)) # r.manifest.checksum)
            => receiver'.pc = "failed"

C38_VerifiedOnly == [][VerifiedOnly]_vars

\* a file of two chunks was handed over after more chunks than two had come
\* for its indices, and one for an index the file does not have
C38_Witness ==
    /\ receiver.pc = "done"
    /\ receiver.manifest.chunkCount = 2
    /\ Cardinality({a \in receiver.arrived : a[1] < 2}) > 2
    /\ \E a \in receiver.arrived : a[1] = 2
    /\ receiver.blob = <<receiver.chunks[0], receiver.chunks[1]>>

(***************************************************************************)
(* C40: when a faithful peer has sent the manifest of a file and all its   *)
(* chunks, the checksum being that of the file, and no timer has fired,    *)
(* receiveFile is verifying the file or has handed it to onComplete; this  *)
(* for every chunkCount, 0 included.                                       *)
(***************************************************************************)
C40_ReceiveCompletes ==
    (/\ receiver.peer = "faithful"
     /\ receiver.fed = 1 + Len(receiver.file)
     /\ receiver.timer30
     /\ receiver.timer300)
    => receiver.pc \in {"verifying", "done"}

=============================================================================
